---- MODULE Spec2Model ----
(***************************************************************************)
(* Model of the OKX trading bot: the TrendRSIStrategy position machine,    *)
(* the FIFO realized-PnL ledger and the BotController's asyncio lifecycle  *)
(* (start / stop / get_status / run_loop / execute_order).                 *)
(*                                                                         *)
(* asyncio runs one coroutine at a time and switches only at an await      *)
(* that really suspends (a network call, asyncio.sleep, awaiting a task),  *)
(* so every action below is the code between two such suspension points.   *)
(*                                                                         *)
(* Prices and RSI values are integers; percentages are whole percents and  *)
(* price <= entry*(1 - pct) is evaluated exactly as                        *)
(* 100*price <= entry*(100 - pct).                                         *)
(***************************************************************************)
EXTENDS Integers, Sequences, FiniteSets, TLC

VARIABLES
    now,                 \* time.time(), in seconds
    client,              \* BotController.client: "None" or "OKXClient"
    is_running,          \* BotController.is_running
    task,                \* BotController.task: 0 (None) or the id of a run_loop task
    mode,                \* BotController.mode
    active_symbols,      \* BotController.active_symbols
    strategies,          \* BotController.strategies: id of a dict object, see dicts
    dicts,               \* heap of dict objects: each a sequence of <<symbol, engine id>>
    strats,              \* heap of TrendRSIStrategy objects
    balance,             \* BotController.balance
    trades,              \* BotController.trades, newest first
    market_prices,       \* BotController.market_prices (0: no entry)
    last_trade_times,    \* BotController.last_trade_times (0: no entry)
    session_start_nav,   \* BotController.session_start_nav ("unset": no such attribute)
    pnl_history,         \* BotController.pnl_history
    price_history,       \* BotController.price_history
    last_history_update, \* BotController._last_history_update
    loops,               \* the run_loop tasks ever created, with their locals
    calls,               \* the start() and stop() calls suspended at an await
    ncalls,              \* the number of start() and stop() calls made so far
    last,                \* the latest API event: a call was made and returned its
                         \* result or suspended, or a suspended call returned
    tickers,             \* number of update_tickers tasks created and not yet finished
    orders,              \* what the Order Gateway has received, oldest first, each with
                         \* the task that sent it and the number of start() calls that
                         \* had reset last_trade_times by then
    check_ret,           \* the engine harness's last calls: what check_signals returned, a
                         \* bit flipped by every check_signals call, whether the last
                         \* update() fetched a table, the BUYs less the SELLs that
                         \* the TrendRSI engine's check_signals has returned, what
                         \* get_strategy_info last returned as next_action
    ledger_ret,          \* the ledger harness's calls on the current trade log: how many
                         \* times calculate_daily_realized_pnl was called, what it returned
    refreshers           \* the news and scanner refreshers: the update_news and
                         \* run_scanner tasks created and not yet finished, and their
                         \* caches market_sentiment and scanner_results (with
                         \* scanner_last_update)

vars == <<now, client, is_running, task, mode, active_symbols, strategies, dicts,
          strats, balance, trades, market_prices, last_trade_times,
          session_start_nav, pnl_history, price_history, last_history_update,
          loops, calls, ncalls, last, tickers, orders, check_ret, ledger_ret, refreshers>>

ctl_vars == <<client, is_running, task, mode, active_symbols, strategies, dicts,
              balance, trades, market_prices, last_trade_times,
              session_start_nav, pnl_history, price_history, last_history_update,
              loops, calls, ncalls, last, tickers, orders>>

----------------------------------------------------------------------------
(* Values                                                                  *)

BTC == "BTC/USDT"
ETH == "ETH/USDT"
DOGE == "DOGE/USDT"
Symbols == {BTC, ETH, DOGE}

None == "None"

\* pandas' NaN: what a rolling window yields before it has warmed up
NaN == -1

\* Python's comparisons involving NaN are all False
Gt(a, b) == a # NaN /\ b # NaN /\ a > b
Lt(a, b) == a # NaN /\ b # NaN /\ a < b

\* strategy.df is None
NoDf == [rows |-> 0, close |-> 0, sma_20 |-> NaN, rsi |-> NaN]

----------------------------------------------------------------------------
(* TrendRSIStrategy                                                        *)

\* TrendRSIStrategy.__init__, then the per-symbol overrides of BotController.start
NewStrategy(sym) ==
    LET base == [symbol |-> sym, sma_period |-> 20, rsi_period |-> 14, df |-> NoDf,
                 position |-> None, entry_price |-> 0,
                 sl_pct |-> 3, tp_pct |-> 6,
                 rsi_buy_thresh |-> 30, rsi_sell_thresh |-> 70]
    IN  IF sym = BTC THEN [base EXCEPT !.rsi_buy_thresh = 35, !.sl_pct = 2]
        ELSE IF sym = ETH THEN base
        ELSE [base EXCEPT !.rsi_buy_thresh = 25, !.sl_pct = 5, !.tp_pct = 10]

\* What update() can retain for a fetched candle table of n rows whose last
\* close is p: the rolling windows are undefined until they have warmed up,
\* and RSI is also undefined on a flat window (0/0).
IndicatorTable(s, n, p, sma, rsi) ==
    [rows |-> n, close |-> p,
     sma_20 |-> IF n < s.sma_period THEN NaN ELSE sma,
     rsi |-> IF n < s.rsi_period THEN NaN ELSE rsi]

\* update with line 36 moved above the test of line 23: a failed fetch
\* drops the retained table
update_drops_table(s, fetched) == [s EXCEPT !.df = fetched]
\* TrendRSIStrategy.update: fetched is NoDf when fetch_data returned None or an
\* empty table
update(s, fetched) ==
    IF fetched.rows = 0 THEN s ELSE [s EXCEPT !.df = fetched]

\* check_signals lines 119 and 123: the two entry tests on the latest row
EntryLong_rsi_only(s) == Lt(s.df.rsi, s.rsi_buy_thresh)
EntryLong(s) == Gt(s.df.close, s.df.sma_20) /\ Lt(s.df.rsi, s.rsi_buy_thresh)
EntryShort(s) == Lt(s.df.close, s.df.sma_20) /\ Gt(s.df.rsi, s.rsi_sell_thresh)

\* check_signals lines 131-141: stop loss, take profit, RSI exit of a LONG
ExitLong_no_take_profit(s) ==
    \/ 100 * s.df.close <= s.entry_price * (100 - s.sl_pct)
    \/ Gt(s.df.rsi, s.rsi_sell_thresh)
ExitLong(s) ==
    \/ 100 * s.df.close <= s.entry_price * (100 - s.sl_pct)
    \/ 100 * s.df.close >= s.entry_price * (100 + s.tp_pct)
    \/ Gt(s.df.rsi, s.rsi_sell_thresh)

\* check_signals lines 145-155: stop loss, take profit, RSI exit of a SHORT
ExitShort_strict_stop(s) ==
    \/ 100 * s.df.close > s.entry_price * (100 + s.sl_pct)
    \/ 100 * s.df.close <= s.entry_price * (100 - s.tp_pct)
    \/ Lt(s.df.rsi, s.rsi_buy_thresh)
ExitShort(s) ==
    \/ 100 * s.df.close >= s.entry_price * (100 + s.sl_pct)
    \/ 100 * s.df.close <= s.entry_price * (100 - s.tp_pct)
    \/ Lt(s.df.rsi, s.rsi_buy_thresh)

\* check_signals with the exit branches falling through to the entry tests:
\* a closed LONG whose row is a short entry goes SHORT in the same call
check_signals_reenter(s) ==
    IF s.df.rows < 2 THEN [strat |-> s, signal |-> None]
    ELSE IF s.position = None /\ EntryLong(s)
      THEN [strat |-> [s EXCEPT !.position = "LONG", !.entry_price = s.df.close],
            signal |-> "BUY"]
    ELSE IF (s.position = None \/ (s.position = "LONG" /\ ExitLong(s))) /\ EntryShort(s)
      THEN [strat |-> [s EXCEPT !.position = "SHORT", !.entry_price = s.df.close],
            signal |-> "SELL"]
    ELSE IF s.position = "LONG" /\ ExitLong(s)
      THEN [strat |-> [s EXCEPT !.position = None], signal |-> "SELL"]
    ELSE IF s.position = "SHORT" /\ ExitShort(s)
      THEN [strat |-> [s EXCEPT !.position = None], signal |-> "BUY"]
    ELSE [strat |-> s, signal |-> None]

\* TrendRSIStrategy.check_signals: the new engine state and the returned signal
check_signals(s) ==
    IF s.df.rows < 2 THEN [strat |-> s, signal |-> None]
    ELSE IF s.position = None /\ EntryLong(s)
      THEN [strat |-> [s EXCEPT !.position = "LONG", !.entry_price = s.df.close],
            signal |-> "BUY"]
    ELSE IF s.position = None /\ EntryShort(s)
      THEN [strat |-> [s EXCEPT !.position = "SHORT", !.entry_price = s.df.close],
            signal |-> "SELL"]
    ELSE IF s.position = "LONG" /\ ExitLong(s)
      THEN [strat |-> [s EXCEPT !.position = None], signal |-> "SELL"]
    ELSE IF s.position = "SHORT" /\ ExitShort(s)
      THEN [strat |-> [s EXCEPT !.position = None], signal |-> "BUY"]
    ELSE [strat |-> s, signal |-> None]

\* the engine harness before any call
NoCheckRet == [signal |-> None, flip |-> FALSE, fetched |-> FALSE, net |-> 0, info |-> None]

----------------------------------------------------------------------------
(* Bounds of the model and what the exchange can answer                    *)

StartTime == 1000       \* time.time() when the server comes up
Horizon == 301          \* the clock stops advancing at StartTime + Horizon
MaxCalls == 3           \* start() and stop() calls made in one behaviour
MaxCycles == 2          \* cycles begun by all run_loop tasks together
MaxEngines == 2         \* strategy objects created in one behaviour
MaxOrders == 2          \* orders the gateway receives in one behaviour

\* what exchange.fetch_balance can answer (client.get_balance turns an
\* exception into None)
NoBalance == [kind |-> None, total |-> <<>>]
EmptyBalance == [kind |-> "empty", total |-> <<>>]
Balance(usdt, btc) ==
    [kind |-> "dict",
     total |-> IF btc = 0 THEN <<[coin |-> "USDT", qty |-> usdt]>>
               ELSE <<[coin |-> "USDT", qty |-> usdt], [coin |-> "BTC", qty |-> btc]>>]
FetchedBalances == {NoBalance, Balance(90, 1)}

\* `if self.balance and 'total' in self.balance`
HasTotal(bal) == bal.kind = "dict"

\* balance['total'].get(coin, 0)
Qty(bal, coin) ==
    IF \E i \in DOMAIN bal.total : bal.total[i].coin = coin
      THEN (CHOOSE r \in {bal.total[i] : i \in DOMAIN bal.total} : r.coin = coin).qty
      ELSE 0

\* the candle tables an engine can end up with after a fetch, in the
\* controller's runs: none (the fetch failed or was empty), a pullback in an
\* uptrend, an overbought row
CandleTables(s) ==
    {NoDf,
     IndicatorTable(s, 20, 100, 99, 20),
     IndicatorTable(s, 20, 100, 99, 80)}

\* what the fetch of start()'s initial update leaves: the controller's runs
\* take it to fail, so that an engine's first table comes from its loop
StartTables == {NoDf}

\* ticker prices the exchange can report
TickerPrices == {10}

----------------------------------------------------------------------------
(* BotController: data                                                     *)

NoPrices == [sym \in Symbols |-> 0]
NoTradeTimes == [sym \in Symbols |-> 0]
NoPriceHistory == [sym \in Symbols |-> <<>>]

\* self.market_prices.get(f"{coin}/USDT", 0)
CoinPrice(prices, coin) == IF coin = "BTC" THEN prices[BTC] ELSE 0

\* seq[:n] for seq[-n:]: the first n elements are kept
Last_keeps_first(seq, n) == IF Len(seq) <= n THEN seq ELSE SubSeq(seq, 1, n)
\* the last n elements of a list: seq[-n:]
Last(seq, n) ==
    IF Len(seq) <= n THEN seq ELSE SubSeq(seq, Len(seq) - n + 1, Len(seq))

\* seq[-n:] for seq[:n]: the last n elements are kept
First_keeps_last(seq, n) ==
    IF Len(seq) <= n THEN seq ELSE SubSeq(seq, Len(seq) - n + 1, Len(seq))
\* the first n elements of a list: seq[:n]
First(seq, n) == IF Len(seq) <= n THEN seq ELSE SubSeq(seq, 1, n)

RECURSIVE CoinsValue(_, _)
\* sum of qty * price over the coins of balance['total'] other than USDT
CoinsValue(total, price) ==
    IF total = <<>> THEN 0
    ELSE (IF Head(total).coin = "USDT" THEN 0
          ELSE Head(total).qty * CoinPrice(price, Head(total).coin))
         + CoinsValue(Tail(total), price)

\* lines 183-186 left out: one order size for every symbol
Amount_one_size(sym) == 1
\* execute_order lines 182-186: the fixed order size per symbol, in 1/1000
Amount(sym) ==
    IF sym = ETH THEN 10
    ELSE IF sym = DOGE THEN 100000
    ELSE 1

Cooldown == 300         \* seconds between two trades of one symbol
HistoryEvery == 10      \* seconds between two history points
HistoryCap == 100       \* points kept in a history buffer
TradeCap == 20          \* records kept in the trade log
NewsEvery == 60         \* cycles between two update_news tasks
ScanEvery == 120        \* cycles between two run_scanner tasks

NavUnset == [set |-> FALSE, value |-> 0]

\* __init__ lines 29 and 41: no sentiment, no scanner result, no task
NoRefreshers ==
    [news |-> 0, scans |-> 0, market_sentiment |-> "{}", scanner_results |-> <<>>,
     scanner_last_update |-> 0]

\* update_history_data: the new _last_history_update, pnl_history and
\* price_history when it runs at time t with self.balance = bal
update_history_data(t, bal) ==
    IF t - last_history_update < HistoryEvery
      THEN [last |-> last_history_update, pnl |-> pnl_history, price |-> price_history]
    ELSE LET current_nav == Qty(bal, "USDT") + CoinsValue(bal.total, market_prices)
             total_pnl == IF HasTotal(bal) /\ session_start_nav.set
                             /\ session_start_nav.value # 0
                            THEN current_nav - session_start_nav.value
                            ELSE 0
         IN  [last |-> t,
              pnl |-> Last(Append(pnl_history, [time |-> t, value |-> total_pnl]),
                           HistoryCap),
              price |-> [sym \in Symbols |->
                           IF (\E k \in DOMAIN active_symbols : active_symbols[k] = sym)
                              /\ market_prices[sym] # 0
                             THEN Last(Append(price_history[sym],
                                              [time |-> t, value |-> market_prices[sym]]),
                                       HistoryCap)
                             ELSE price_history[sym]]]

\* self.strategies[sym] = strat on the dict object d
DictSet(d, sym, eng) ==
    IF \E k \in DOMAIN d : d[k][1] = sym
      THEN [k \in DOMAIN d |-> IF d[k][1] = sym THEN <<sym, eng>> ELSE d[k]]
      ELSE Append(d, <<sym, eng>>)

----------------------------------------------------------------------------
(* BotController.run_loop                                                  *)

NewLoop ==
    [pc |-> "created", loop_count |-> 0, d |-> 0, i |-> 0, n |-> 0,
     sym |-> None, eng |-> 0, signal |-> None, t |-> 0]

\* the for statement of line 133 asks the dict iterator for its next item:
\* a dict whose size changed raises RuntimeError, caught at line 173;
\* an exhausted iterator leads to the balance fetch of line 164
NextItem(lp) ==
    IF Len(dicts[lp.d]) # lp.n THEN [lp EXCEPT !.pc = "sleep"]
    ELSE IF lp.i = lp.n THEN [lp EXCEPT !.pc = "balance"]
    ELSE [lp EXCEPT !.pc = "update", !.i = lp.i + 1,
                    !.sym = dicts[lp.d][lp.i + 1][1],
                    !.eng = dicts[lp.d][lp.i + 1][2]]

\* line 155 with one timer for all symbols
Stamp_every_symbol(times, symbol, t) == [sym \in Symbols |-> t]
\* line 155: self.last_trade_times[symbol] = now
Stamp(times, symbol, t) == [times EXCEPT ![symbol] = t]

\* the cooldown test of line 152
CooldownOver(t, last_t) == (t - last_t) > Cooldown

RECURSIVE CyclesBegun(_)
\* the cycles begun so far by the given tasks
CyclesBegun(ls) == IF ls = <<>> THEN 0 ELSE Head(ls).loop_count + CyclesBegun(Tail(ls))

\* lines 123-136: the task starts or wakes from its sleep, tests is_running,
\* and either ends or begins a cycle up to the first candle fetch
LoopIterateWithin(l, max_cycles) ==
    /\ loops[l].pc \in {"created", "sleep"}
    /\ IF ~is_running
         THEN /\ loops' = [loops EXCEPT ![l] =
                              [NewLoop EXCEPT !.pc = "done", !.loop_count = loops[l].loop_count]]
              /\ UNCHANGED <<tickers, refreshers>>
         ELSE /\ CyclesBegun(loops) < max_cycles
              /\ LET lp == [loops[l] EXCEPT !.loop_count = @ + 1, !.d = strategies,
                                            !.n = Len(dicts[strategies]), !.i = 0]
                 IN  /\ loops' = [loops EXCEPT ![l] = NextItem(lp)]
                     /\ tickers' = IF lp.loop_count % 2 = 0 THEN tickers + 1 ELSE tickers
                     /\ refreshers' =
                          [refreshers EXCEPT
                             !.news = IF lp.loop_count % NewsEvery = 0 THEN @ + 1 ELSE @,
                             !.scans = IF lp.loop_count % ScanEvery = 0 THEN @ + 1 ELSE @]
    /\ UNCHANGED <<now, client, is_running, task, mode, active_symbols, strategies,
                   dicts, strats, balance, trades, market_prices, last_trade_times,
                   session_start_nav, pnl_history, price_history, last_history_update,
                   calls, ncalls, last, orders, check_ret, ledger_ret>>

LoopIterate(l) == LoopIterateWithin(l, MaxCycles)

\* lines 136-157: the candle fetch of strategy.update() has returned; the
\* engine is updated and evaluated, and a signal passes the cooldown filter
\* into execute_order, which suspends in client.place_order
LoopUpdateDone(l, table) ==
    /\ loops[l].pc = "update"
    /\ LET lp == loops[l]
           r == check_signals(update(strats[lp.eng], table))
       IN  /\ strats' = [strats EXCEPT ![lp.eng] = r.strat]
           /\ IF r.signal # None /\ CooldownOver(now, last_trade_times[lp.sym])
                THEN /\ Len(orders) < MaxOrders
                     /\ orders' = Append(orders, [symbol |-> lp.sym, side |-> r.signal,
                                                  time |-> now, loop |-> l,
                                                  resets |-> Len(dicts) - 1])
                     /\ loops' = [loops EXCEPT ![l] =
                                    [lp EXCEPT !.pc = "order", !.signal = r.signal,
                                               !.t = now]]
                ELSE /\ loops' = [loops EXCEPT ![l] = NextItem(lp)]
                     /\ UNCHANGED orders
    /\ UNCHANGED <<now, client, is_running, task, mode, active_symbols, strategies,
                   dicts, balance, trades, market_prices, last_trade_times,
                   session_start_nav, pnl_history, price_history, last_history_update,
                   calls, ncalls, last, tickers, check_ret, ledger_ret, refreshers>>

\* lines 136-160: strategy.update() or check_signals() has raised; the handler
\* of line 159 prints the error and the for statement goes on
LoopUpdateRaised(l) ==
    /\ loops[l].pc = "update"
    /\ loops' = [loops EXCEPT ![l] = NextItem(loops[l])]
    /\ UNCHANGED <<now, client, is_running, task, mode, active_symbols, strategies,
                   dicts, strats, balance, trades, market_prices, last_trade_times,
                   session_start_nav, pnl_history, price_history, last_history_update,
                   calls, ncalls, last, tickers, orders, check_ret, ledger_ret, refreshers>>

\* execute_order lines 193-199: the TradeRecord of a filled order
TradeRecord(lp) ==
    [time |-> [fmt |-> "str(ms)", t |-> now], side |-> lp.signal,
     price |-> strats[lp.eng].df.close, amount |-> Amount(lp.sym), symbol |-> lp.sym]

\* execute_order lines 188-203 and run_loop line 155: place_order has
\* returned; a fill is recorded and the balance refresh awaited, a failure
\* returns at once to the loop, which stamps the cooldown
LoopOrderDone(l, filled) ==
    /\ loops[l].pc = "order"
    /\ LET lp == loops[l]
       IN  IF filled
             THEN /\ trades' = First(<<TradeRecord(lp)>> \o trades, TradeCap)
                  /\ loops' = [loops EXCEPT ![l].pc = "order_balance"]
                  /\ UNCHANGED last_trade_times
             ELSE /\ last_trade_times' = Stamp(last_trade_times, lp.sym, lp.t)
                  /\ loops' = [loops EXCEPT ![l] = NextItem(lp)]
                  /\ UNCHANGED trades
    /\ UNCHANGED <<now, client, is_running, task, mode, active_symbols, strategies,
                   dicts, strats, balance, market_prices, session_start_nav,
                   pnl_history, price_history, last_history_update, calls, ncalls, last,
                   tickers, orders, check_ret, ledger_ret, refreshers>>

\* execute_order line 203 and run_loop line 155: the balance refresh after a
\* fill has returned
LoopOrderBalanceDone(l, bal) ==
    /\ loops[l].pc = "order_balance"
    /\ balance' = bal
    /\ last_trade_times' = Stamp(last_trade_times, loops[l].sym, loops[l].t)
    /\ loops' = [loops EXCEPT ![l] = NextItem(loops[l])]
    /\ UNCHANGED <<now, client, is_running, task, mode, active_symbols, strategies,
                   dicts, strats, trades, market_prices, session_start_nav,
                   pnl_history, price_history, last_history_update, calls, ncalls, last,
                   tickers, orders, check_ret, ledger_ret, refreshers>>

\* lines 163-171: the cycle's balance fetch has returned; the history is
\* updated and the task goes to sleep
LoopBalanceDone(l, bal) ==
    /\ loops[l].pc = "balance"
    /\ balance' = IF bal.kind = "dict" THEN bal ELSE balance
    /\ LET h == update_history_data(now, IF bal.kind = "dict" THEN bal ELSE balance)
       IN  /\ last_history_update' = h.last
           /\ pnl_history' = h.pnl
           /\ price_history' = h.price
    /\ loops' = [loops EXCEPT ![l].pc = "sleep"]
    /\ UNCHANGED <<now, client, is_running, task, mode, active_symbols, strategies,
                   dicts, strats, trades, market_prices, last_trade_times,
                   session_start_nav, calls, ncalls, last, tickers, orders,
                   check_ret, ledger_ret, refreshers>>

----------------------------------------------------------------------------
(* BotController.start                                                     *)

\* the locals of a suspended start() or stop()
NewCall(op) ==
    [op |-> op, pc |-> None, symbols |-> <<>>, k |-> 0, eng |-> 0,
     bal |-> NoBalance, awaited |-> 0]

\* a list without its element at position c
Without(seq, c) == SubSeq(seq, 1, c - 1) \o SubSeq(seq, c + 1, Len(seq))

\* what POST /api/start is called with
StartRequests ==
    {[mode |-> "SINGLE", symbols |-> <<BTC>>],
     [mode |-> "DUAL", symbols |-> <<DOGE>>]}

\* the guard of line 243 left out: start never refuses
AlreadyRunning_never == FALSE
\* the guard of line 243
AlreadyRunning == is_running

\* lines 243-273: start() up to its first suspension. Without a client the
\* engines' update() returns at once and line 277 raises AttributeError.
StartEnterWithin(req, max_engines) ==
    /\ ncalls < MaxCalls
    /\ AlreadyRunning \/ Len(strats) < max_engines
    /\ ncalls' = ncalls + 1
    /\ LET d == Len(dicts) + 1
           e == Len(strats) + 1
           n == Len(req.symbols)
       IN  IF AlreadyRunning
             THEN /\ last' = [op |-> "start", result |-> "Bot already running"]
                  /\ UNCHANGED <<mode, active_symbols, strategies, dicts, strats,
                                 last_trade_times, calls>>
             ELSE /\ mode' = req.mode
                  /\ active_symbols' = req.symbols
                  /\ strategies' = d
                  /\ last_trade_times' = NoTradeTimes
                  /\ IF client = None
                       THEN /\ strats' = strats \o [k \in 1..n |-> NewStrategy(req.symbols[k])]
                            /\ dicts' = Append(dicts,
                                               [k \in 1..n |-> <<req.symbols[k], e + k - 1>>])
                            /\ last' = [op |-> "start", result |-> "AttributeError"]
                            /\ UNCHANGED calls
                       ELSE /\ strats' = Append(strats, NewStrategy(req.symbols[1]))
                            /\ dicts' = Append(dicts, <<<<req.symbols[1], e>>>>)
                            /\ calls' = Append(calls, [NewCall("start") EXCEPT
                                                         !.pc = "start_update",
                                                         !.symbols = req.symbols,
                                                         !.k = 1, !.eng = e])
                            /\ last' = [op |-> "start", result |-> "suspended"]
    /\ UNCHANGED <<now, client, is_running, task, balance, trades, market_prices,
                   session_start_nav, pnl_history, price_history, last_history_update,
                   loops, tickers, orders, check_ret, ledger_ret, refreshers>>

\* lines 253-277: the initial update() of one engine has returned; the next
\* engine is created and stored in whatever dict self.strategies is now, or
\* the balance fetch is awaited
StartUpdateDoneWithin(c, table, max_engines) ==
    /\ calls[c].pc = "start_update"
    /\ LET cl == calls[c]
           e == Len(strats) + 1
           updated == [strats EXCEPT ![cl.eng] = update(@, table)]
       IN  IF cl.k < Len(cl.symbols)
             THEN /\ Len(strats) < max_engines
                  /\ strats' = Append(updated, NewStrategy(cl.symbols[cl.k + 1]))
                  /\ dicts' = [dicts EXCEPT ![strategies] =
                                 DictSet(@, cl.symbols[cl.k + 1], e)]
                  /\ calls' = [calls EXCEPT ![c].k = cl.k + 1, ![c].eng = e]
             ELSE /\ strats' = updated
                  /\ calls' = [calls EXCEPT ![c] = [NewCall("start") EXCEPT
                                                      !.pc = "start_balance"]]
                  /\ UNCHANGED dicts
    /\ UNCHANGED <<now, client, is_running, task, mode, active_symbols, strategies,
                   balance, trades, market_prices, last_trade_times,
                   session_start_nav, pnl_history, price_history, last_history_update,
                   loops, ncalls, last, tickers, orders, check_ret, ledger_ret, refreshers>>

\* start() in the controller's runs, which create at most MaxEngines engines
StartEnter(req) == StartEnterWithin(req, MaxEngines)
StartUpdateDone(c, table) == StartUpdateDoneWithin(c, table, MaxEngines)

\* lines 290-295: the baseline is stored, the controller marked running and
\* the run_loop task created
StartFinish(c, has_nav, total_nav) ==
    /\ session_start_nav' = IF has_nav THEN [set |-> TRUE, value |-> total_nav]
                            ELSE session_start_nav
    /\ is_running' = TRUE
    /\ loops' = Append(loops, NewLoop)
    /\ task' = Len(loops) + 1
    /\ calls' = Without(calls, c)
    /\ last' = [op |-> "start", result |-> "Started"]

\* lines 277-295: the balance fetch has returned; a held coin without a cached
\* price makes start() await fetch_ticker, otherwise start() completes
StartBalanceDone(c, bal) ==
    /\ calls[c].pc = "start_balance"
    /\ balance' = bal
    /\ IF HasTotal(bal) /\ Qty(bal, "BTC") # 0 /\ market_prices[BTC] = 0
         THEN /\ calls' = [calls EXCEPT ![c].pc = "start_ticker", ![c].bal = bal]
              /\ UNCHANGED <<session_start_nav, is_running, loops, task, last>>
         ELSE StartFinish(c, HasTotal(bal),
                          Qty(bal, "USDT") + CoinsValue(bal.total, market_prices))
    /\ UNCHANGED <<now, client, mode, active_symbols, strategies, dicts, strats,
                   trades, market_prices, last_trade_times, pnl_history,
                   price_history, last_history_update, ncalls, tickers, orders,
                   check_ret, ledger_ret, refreshers>>

\* lines 285-295: fetch_ticker has returned a price, or failed (price 0)
StartTickerDone(c, price) ==
    /\ calls[c].pc = "start_ticker"
    /\ StartFinish(c, TRUE, Qty(calls[c].bal, "USDT") + Qty(calls[c].bal, "BTC") * price)
    /\ UNCHANGED <<now, client, mode, active_symbols, strategies, dicts, strats,
                   balance, trades, market_prices, last_trade_times, pnl_history,
                   price_history, last_history_update, ncalls, tickers, orders,
                   check_ret, ledger_ret, refreshers>>

----------------------------------------------------------------------------
(* calculate_daily_realized_pnl: the FIFO ledger                           *)

SecondsPerDay == 86400

\* the local calendar day of a time in seconds
Day(t) == t \div SecondsPerDay

\* lines 347-352: a string time goes through datetime.fromisoformat, which
\* rejects the decimal milliseconds that execute_order writes; a number is
\* taken as milliseconds since the epoch
Parses(time) == time.fmt \in {"iso", "ms"}

RECURSIVE InsertByTime(_, _)
\* sorted(..., key=time) is stable: a record goes after those not later
InsertByTime(sorted, rec) ==
    IF sorted = <<>> THEN <<rec>>
    ELSE IF Head(sorted).time.t <= rec.time.t
      THEN <<Head(sorted)>> \o InsertByTime(Tail(sorted), rec)
    ELSE <<rec>> \o sorted

\* line 339 left out: the records are matched in the order of the log
SortByTime_unsorted(log) == log

RECURSIVE SortByTime(_)
\* line 339: sorted(self.trades, key=lambda x: x['time'])
SortByTime(log) ==
    IF log = <<>> THEN <<>>
    ELSE InsertByTime(SortByTime(SubSeq(log, 1, Len(log) - 1)), log[Len(log)])

RECURSIVE Consume(_, _, _)
\* lines 370-379: withdraw qty_to_fill from the front of the inventory
Consume(inventory, qty_to_fill, cost_basis) ==
    IF qty_to_fill > 0 /\ inventory # <<>>
      THEN LET batch == Head(inventory)
           IN  IF batch.amount > qty_to_fill
                 THEN [inventory |-> <<[batch EXCEPT !.amount = @ - qty_to_fill]>>
                                       \o Tail(inventory),
                       qty_to_fill |-> 0,
                       cost_basis |-> cost_basis + batch.price * qty_to_fill]
                 ELSE Consume(Tail(inventory), qty_to_fill - batch.amount,
                              cost_basis + batch.price * batch.amount)
      ELSE [inventory |-> inventory, qty_to_fill |-> qty_to_fill,
            cost_basis |-> cost_basis]

\* line 353 left out: a SELL of any day counts
is_today_any_day(time, today) == TRUE
\* line 353: is_today = (dt.date() == today)
is_today(time, today) == Day(time.t) = today

\* one inventory for every symbol
InventoryKey_one_queue(symbol) == BTC
\* lines 358-361: the inventory of a record is the one of its symbol
InventoryKey(symbol) == symbol

\* line 381 left out: what could not be matched costs nothing
CostBasis_matched_only(c, price) == c.cost_basis
\* line 381: what could not be matched is costed at the sale price
CostBasis(c, price) == c.cost_basis + price * c.qty_to_fill

RECURSIVE Ledger(_, _, _, _)
\* lines 345-386: one pass over the sorted records; the result is the sum
\* returned at line 386, with the inventories as the pass leaves them
Ledger(sorted, today, inventories, daily_realized_pnl) ==
    IF sorted = <<>>
      THEN [inventories |-> inventories, daily_realized_pnl |-> daily_realized_pnl]
    ELSE LET rec == Head(sorted)
             rest == Tail(sorted)
         IN  IF ~Parses(rec.time)
               THEN Ledger(rest, today, inventories, daily_realized_pnl)
             ELSE IF rec.side = "BUY"
               THEN Ledger(rest, today,
                           [inventories EXCEPT ![InventoryKey(rec.symbol)] =
                              Append(@, [price |-> rec.price, amount |-> rec.amount])],
                           daily_realized_pnl)
             ELSE LET c == Consume(inventories[InventoryKey(rec.symbol)], rec.amount, 0)
                      cost_basis == CostBasis(c, rec.price)
                      trade_pnl == rec.price * rec.amount - cost_basis
                  IN  Ledger(rest, today,
                             [inventories EXCEPT ![InventoryKey(rec.symbol)] = c.inventory],
                             IF is_today(rec.time, today)
                               THEN daily_realized_pnl + trade_pnl
                               ELSE daily_realized_pnl)

\* calculate_daily_realized_pnl, in 1/1000 USDT
calculate_daily_realized_pnl(log, today) ==
    Ledger(SortByTime(log), today, [sym \in Symbols |-> <<>>], 0).daily_realized_pnl

\* the ledger harness before any call on the current trade log
NoLedgerRet == [calls |-> 0, pnl |-> 0]

\* line 345 with self.trades.pop(0) for the iteration: no record is left
TradesAfterLedger_drained(log) == <<>>
\* line 339 with list.sort() for sorted(): the trade log is reordered
TradesAfterLedger_sorted_in_place(log) == SortByTime(log)
\* line 339: sorted() copies, and the inventory holds fresh dicts (line 364),
\* so the trade log is what it was
TradesAfterLedger(log) == log

----------------------------------------------------------------------------
(* BotController.stop, get_status; update_tickers; the clock               *)

\* the guard of line 298 inverted
AlreadyStopped_inverted == is_running
\* the guard of line 298
AlreadyStopped == ~is_running

\* lines 298-301 up to `await self.task`; awaiting a finished task returns
\* at once
StopEnter ==
    /\ ncalls < MaxCalls
    /\ ncalls' = ncalls + 1
    /\ IF AlreadyStopped
         THEN /\ last' = [op |-> "stop", result |-> "Already stopped"]
              /\ UNCHANGED <<is_running, calls>>
         ELSE /\ is_running' = FALSE
              /\ IF task # 0 /\ loops[task].pc # "done"
                   THEN /\ calls' = Append(calls, [NewCall("stop") EXCEPT
                                                     !.pc = "stop_wait", !.awaited = task])
                        /\ last' = [op |-> "stop", result |-> "suspended"]
                   ELSE /\ last' = [op |-> "stop", result |-> "Bot stopped"]
                        /\ UNCHANGED calls
    /\ UNCHANGED <<now, client, task, mode, active_symbols, strategies, dicts, strats,
                   balance, trades, market_prices, last_trade_times,
                   session_start_nav, pnl_history, price_history, last_history_update,
                   loops, tickers, orders, check_ret, ledger_ret, refreshers>>

\* lines 300-301: the awaited task has finished
StopWaitDone(c) ==
    /\ calls[c].pc = "stop_wait"
    /\ loops[calls[c].awaited].pc = "done"
    /\ calls' = Without(calls, c)
    /\ last' = [op |-> "stop", result |-> "Bot stopped"]
    /\ UNCHANGED <<now, client, is_running, task, mode, active_symbols, strategies,
                   dicts, strats, balance, trades, market_prices, last_trade_times,
                   session_start_nav, pnl_history, price_history, last_history_update,
                   loops, ncalls, tickers, orders, check_ret, ledger_ret, refreshers>>

\* line 311: self.session_start_nav is read whenever pnl_history is not
\* empty, and only start() creates that attribute (line 290)
StatusRaises == pnl_history # <<>> /\ ~session_start_nav.set

\* get_status: no await inside, so it runs in one step
GetStatus ==
    /\ last' = [op |-> "status",
                result |-> IF StatusRaises THEN "AttributeError" ELSE "snapshot"]
    /\ trades' = TradesAfterLedger(trades)
    /\ UNCHANGED <<now, client, is_running, task, mode, active_symbols, strategies,
                   dicts, strats, balance, market_prices, last_trade_times,
                   session_start_nav, pnl_history, price_history, last_history_update,
                   loops, calls, ncalls, tickers, orders, check_ret, ledger_ret, refreshers>>

\* update_tickers: fetch_tickers has returned prices for the watch list, or
\* failed (price 0), which is swallowed
TickersDone(price) ==
    /\ tickers > 0
    /\ tickers' = tickers - 1
    /\ market_prices' = IF price = 0 THEN market_prices
                        ELSE [sym \in Symbols |-> price]
    /\ UNCHANGED <<now, client, is_running, task, mode, active_symbols, strategies,
                   dicts, strats, balance, trades, last_trade_times,
                   session_start_nav, pnl_history, price_history, last_history_update,
                   loops, calls, ncalls, last, orders, check_ret, ledger_ret, refreshers>>

\* Time passes, up to the end of a cooldown window or just beyond it. The
\* clock moves in steps of a cooldown window, and a network call is over
\* within seconds (the exchange client gives up after its request timeout),
\* so time passes only while no coroutine is waiting for the network: the
\* tasks sleep in asyncio.sleep(5) or have ended, a stop() waits for its task.
Tick(d) ==
    /\ now + d <= StartTime + Horizon
    /\ \A l \in DOMAIN loops : loops[l].pc \in {"sleep", "done"}
    /\ \A c \in DOMAIN calls : calls[c].pc = "stop_wait"
    /\ tickers = 0
    /\ now' = now + d
    /\ UNCHANGED <<ctl_vars, strats, check_ret, ledger_ret, refreshers>>

----------------------------------------------------------------------------
(* The controller                                                          *)

\* BotController.__init__ and initialize(): without credentials there is no
\* client and the balance stays {}; with a client the first balance fetch
\* has been made
Init ==
    /\ now = StartTime
    /\ \/ client = None /\ balance = EmptyBalance
       \/ client = "OKXClient" /\ balance \in FetchedBalances
    /\ is_running = FALSE
    /\ task = 0
    /\ mode = "SINGLE"
    /\ active_symbols = <<>>
    /\ strategies = 1
    /\ dicts = << <<>> >>
    /\ strats = <<>>
    /\ trades = <<>>
    /\ market_prices = NoPrices
    /\ last_trade_times = NoTradeTimes
    /\ session_start_nav = NavUnset
    /\ pnl_history = <<>>
    /\ price_history = NoPriceHistory
    /\ last_history_update = 0
    /\ loops = <<>>
    /\ calls = <<>>
    /\ ncalls = 0
    /\ last = [op |-> None, result |-> None]
    /\ tickers = 0
    /\ orders = <<>>
    /\ check_ret = NoCheckRet
    /\ ledger_ret = NoLedgerRet
    /\ refreshers = NoRefreshers

Next ==
    \/ \E req \in StartRequests : StartEnter(req)
    \/ \E c \in DOMAIN calls :
          /\ calls[c].pc = "start_update"
          /\ \E table \in StartTables : StartUpdateDone(c, table)
    \/ \E c \in DOMAIN calls : \E bal \in FetchedBalances : StartBalanceDone(c, bal)
    \/ \E c \in DOMAIN calls : \E price \in TickerPrices \cup {0} : StartTickerDone(c, price)
    \/ StopEnter
    \/ \E c \in DOMAIN calls : StopWaitDone(c)
    \/ GetStatus
    \/ \E l \in DOMAIN loops : LoopIterate(l)
    \/ \E l \in DOMAIN loops :
          /\ loops[l].pc = "update"
          /\ \E table \in CandleTables(strats[loops[l].eng]) : LoopUpdateDone(l, table)
    \/ \E l \in DOMAIN loops : \E filled \in BOOLEAN : LoopOrderDone(l, filled)
    \/ \E l \in DOMAIN loops : \E bal \in FetchedBalances : LoopOrderBalanceDone(l, bal)
    \/ \E l \in DOMAIN loops : \E bal \in FetchedBalances : LoopBalanceDone(l, bal)
    \/ \E price \in TickerPrices \cup {0} : TickersDone(price)
    \/ \E d \in {Cooldown, Cooldown + 1} : Tick(d)

Spec == Init /\ [][Next]_vars

----------------------------------------------------------------------------
(* One engine on its own: update() and check_signals() called in any order *)
(* on a TrendRSIStrategy configured as start() configures it.              *)

\* lengths of the fetched candle table: one row, two rows, enough for the
\* RSI window only, enough for both windows
EngineRows == {1, 2, 14, 20}
\* last closes: 100, and the stop and target prices of a BTC/USDT entry at 100
EnginePrices == {94, 98, 100, 102, 106}
\* values of the 20-candle average, below, at and above a close of 100
EngineSmas == {96, 100, 104}
\* RSI values around the thresholds 25, 30, 35 and 70, and the RSI of a
\* window without a losing candle or without any move
EngineRsis == {NaN, 24, 25, 30, 35, 70, 71}

EngineTables(s) ==
    {NoDf} \cup
    {IndicatorTable(s, n, p, sma, rsi) :
        n \in EngineRows, p \in EnginePrices, sma \in EngineSmas, rsi \in EngineRsis}

InitEngine ==
    /\ now = StartTime
    /\ client = "OKXClient"
    /\ balance = EmptyBalance
    /\ is_running = FALSE
    /\ task = 0
    /\ mode = "SINGLE"
    /\ active_symbols = <<>>
    /\ strategies = 1
    /\ dicts = << <<>> >>
    /\ \E sym \in Symbols : strats = <<NewStrategy(sym)>>
    /\ trades = <<>>
    /\ market_prices = NoPrices
    /\ last_trade_times = NoTradeTimes
    /\ session_start_nav = NavUnset
    /\ pnl_history = <<>>
    /\ price_history = NoPriceHistory
    /\ last_history_update = 0
    /\ loops = <<>>
    /\ calls = <<>>
    /\ ncalls = 0
    /\ last = [op |-> None, result |-> None]
    /\ tickers = 0
    /\ orders = <<>>
    /\ check_ret = NoCheckRet
    /\ ledger_ret = NoLedgerRet
    /\ refreshers = NoRefreshers

\* await strategy.update() with the fetch returning the given table
EngineUpdate(table) ==
    /\ strats' = [strats EXCEPT ![1] = update(strats[1], table)]
    /\ check_ret' = [check_ret EXCEPT !.fetched = (table.rows # 0)]
    /\ UNCHANGED <<now, ctl_vars, ledger_ret, refreshers>>

\* what a returned signal adds to the count of BUYs less SELLs
SignalValue(signal) == IF signal = "BUY" THEN 1 ELSE IF signal = "SELL" THEN -1 ELSE 0

\* strategy.check_signals()
EngineCheck ==
    /\ strats' = [strats EXCEPT ![1] = check_signals(strats[1]).strat]
    /\ check_ret' = [check_ret EXCEPT
                        !.signal = check_signals(strats[1]).signal,
                        !.flip = ~check_ret.flip,
                        !.net = @ + SignalValue(check_signals(strats[1]).signal)]
    /\ UNCHANGED <<now, ctl_vars, ledger_ret, refreshers>>

NextEngine ==
    \/ \E table \in EngineTables(strats[1]) : EngineUpdate(table)
    \/ EngineCheck

SpecEngine == InitEngine /\ [][NextEngine]_vars

----------------------------------------------------------------------------
(* Properties                                                              *)

\* C1: between two resets of last_trade_times, two orders sent to the Order
\* Gateway for the same symbol are at least a cooldown window apart (a signal
\* arriving within the window of the symbol's last trade is dropped).
C1_OneOrderPerWindow ==
    \A i, j \in DOMAIN orders :
        (i < j /\ orders[i].symbol = orders[j].symbol
               /\ orders[i].resets = orders[j].resets)
            => orders[j].time - orders[i].time >= Cooldown

\* C2: at any time at most one run_loop task is live (created and not yet
\* finished), whatever the interleaving of start() and stop() calls.
C2_AtMostOneLoop ==
    Cardinality({l \in DOMAIN loops : loops[l].pc # "done"}) <= 1

\* C3: a start() call made while is_running is set returns "Bot already
\* running" and leaves mode, active_symbols, the strategies map, every
\* engine, last_trade_times, the session baseline and the loop task as they
\* were.
C3_StartWhileRunningIsNoOp ==
    [][(ncalls' = ncalls + 1 /\ last'.op = "start" /\ is_running)
         => /\ last'.result = "Bot already running"
            /\ UNCHANGED <<is_running, mode, active_symbols, strategies, dicts, strats,
                           last_trade_times, session_start_nav, task, loops, calls>>]_vars

\* C3 happens: start() has just been refused while an engine holds a LONG
\* position and the symbol has a cooldown stamp
C3_Witness ==
    /\ last = [op |-> "start", result |-> "Bot already running"]
    /\ is_running
    /\ \E e \in DOMAIN strats : strats[e].position = "LONG"
    /\ \E sym \in Symbols : last_trade_times[sym] # 0

\* C4: once a stop() that found the controller running has returned, no
\* run_loop task is in the middle of a cycle (waiting for candles, for an
\* order or for a balance), so no engine is evaluated and no order is sent
\* before the next start().
C4_NoCycleAfterStopReturned ==
    last = [op |-> "stop", result |-> "Bot stopped"]
        => \A l \in DOMAIN loops : loops[l].pc \in {"created", "sleep", "done"}

\* C5: a stop() call made while is_running is clear returns "Already
\* stopped" and changes nothing in the controller, so a second stop() leaves
\* the state the first one left.
C5_StopWhenStoppedIsNoOp ==
    [][(ncalls' = ncalls + 1 /\ last'.op = "stop" /\ ~is_running)
         => /\ last'.result = "Already stopped"
            /\ UNCHANGED <<client, is_running, task, mode, active_symbols, strategies,
                           dicts, strats, balance, trades, market_prices,
                           last_trade_times, session_start_nav, pnl_history,
                           price_history, last_history_update, loops, calls, tickers,
                           orders>>]_vars

\* C5 happens: stop() has been answered "Already stopped" after a session
\* whose loop has ended
C5_Witness ==
    /\ last = [op |-> "stop", result |-> "Already stopped"]
    /\ loops # <<>>
    /\ \A l \in DOMAIN loops : loops[l].pc = "done"

\* C6: every get_status call returns a snapshot; none raises.
C6_StatusNeverFails ==
    last.op = "status" => last.result = "snapshot"

\* C7: a get_status call leaves the trade log, the balance, the price cache,
\* the history buffers, the cooldown stamps and every engine unchanged.
C7_StatusIsPureRead ==
    [][GetStatus
         => UNCHANGED <<trades, balance, market_prices, pnl_history, price_history,
                        last_history_update, last_trade_times, strats, strategies,
                        dicts>>]_vars

\* C7 happens: a status has been served over a trade log of two records
\* made at different times
C7_Witness ==
    /\ last = [op |-> "status", result |-> "snapshot"]
    /\ Len(trades) = 2
    /\ trades[1].time # trades[2].time

\* C8: called on a FLAT engine, check_signals returns BUY exactly when
\* price > SMA and RSI < rsi_buy_thresh, and the engine is then LONG with
\* entry_price the current price; it returns SELL exactly when price < SMA
\* and RSI > rsi_sell_thresh, and the engine is then SHORT with entry_price
\* the current price; otherwise it returns nothing and the engine is as before.
C8_FlatEntry ==
    [][(check_ret'.flip # check_ret.flip /\ strats[1].position = None)
         => LET s == strats[1]
                t == strats'[1]
                sig == check_ret'.signal
            IN  /\ sig = "BUY" <=> (Gt(s.df.close, s.df.sma_20) /\ Lt(s.df.rsi, s.rsi_buy_thresh))
                /\ sig = "SELL" <=> (Lt(s.df.close, s.df.sma_20) /\ Gt(s.df.rsi, s.rsi_sell_thresh))
                /\ sig = "BUY"
                     => t = [s EXCEPT !.position = "LONG", !.entry_price = s.df.close]
                /\ sig = "SELL"
                     => t = [s EXCEPT !.position = "SHORT", !.entry_price = s.df.close]
                /\ sig \notin {"BUY", "SELL"} => (sig = None /\ t = s)]_vars

\* C8 happens: the last check returned BUY and the engine is LONG at the
\* price of its table
C8_Witness ==
    /\ check_ret.signal = "BUY"
    /\ strats[1].position = "LONG"
    /\ strats[1].entry_price = strats[1].df.close
    /\ Gt(strats[1].df.close, strats[1].df.sma_20)

\* C9, as stated: called on a LONG engine, check_signals returns SELL (and
\* the engine is FLAT) exactly when price <= entry_price*(1 - sl_pct), or
\* price >= entry_price*(1 + tp_pct), or RSI > rsi_sell_thresh; otherwise it
\* returns nothing and the engine is as before.
C9_LongExit_AnyTable ==
    [][(check_ret'.flip # check_ret.flip /\ strats[1].position = "LONG")
         => LET s == strats[1]
                t == strats'[1]
                sig == check_ret'.signal
            IN  /\ sig \in {None, "SELL"}
                /\ sig = "SELL" <=> \/ 100 * s.df.close <= s.entry_price * (100 - s.sl_pct)
                                    \/ 100 * s.df.close >= s.entry_price * (100 + s.tp_pct)
                                    \/ Gt(s.df.rsi, s.rsi_sell_thresh)
                /\ sig = "SELL" => t = [s EXCEPT !.position = None]
                /\ sig = None => t = s]_vars

\* C9, amended: the same for a LONG engine whose candle table has at least
\* two rows; on a shorter table check_signals returns nothing and the engine
\* is as before.
C9_LongExit ==
    [][(check_ret'.flip # check_ret.flip /\ strats[1].position = "LONG")
         => LET s == strats[1]
                t == strats'[1]
                sig == check_ret'.signal
            IN  /\ sig \in {None, "SELL"}
                /\ sig = "SELL" <=> /\ s.df.rows >= 2
                                    /\ \/ 100 * s.df.close <= s.entry_price * (100 - s.sl_pct)
                                       \/ 100 * s.df.close >= s.entry_price * (100 + s.tp_pct)
                                       \/ Gt(s.df.rsi, s.rsi_sell_thresh)
                /\ sig = "SELL" => t = [s EXCEPT !.position = None]
                /\ sig = None => t = s]_vars

\* C9 happens: the last check closed a LONG at its take-profit price
C9_Witness ==
    /\ check_ret.signal = "SELL"
    /\ strats[1].position = None
    /\ strats[1].entry_price # 0
    /\ strats[1].df.rows >= 2
    /\ 100 * strats[1].df.close >= strats[1].entry_price * (100 + strats[1].tp_pct)
    /\ ~Gt(strats[1].df.rsi, strats[1].rsi_sell_thresh)

\* C10, as stated: called on a SHORT engine, check_signals returns BUY (and
\* the engine is FLAT) exactly when price >= entry_price*(1 + sl_pct), or
\* price <= entry_price*(1 - tp_pct), or RSI < rsi_buy_thresh; otherwise it
\* returns nothing and the engine is as before.
C10_ShortExit_AnyTable ==
    [][(check_ret'.flip # check_ret.flip /\ strats[1].position = "SHORT")
         => LET s == strats[1]
                t == strats'[1]
                sig == check_ret'.signal
            IN  /\ sig \in {None, "BUY"}
                /\ sig = "BUY" <=> \/ 100 * s.df.close >= s.entry_price * (100 + s.sl_pct)
                                   \/ 100 * s.df.close <= s.entry_price * (100 - s.tp_pct)
                                   \/ Lt(s.df.rsi, s.rsi_buy_thresh)
                /\ sig = "BUY" => t = [s EXCEPT !.position = None]
                /\ sig = None => t = s]_vars

\* C10, amended: the same for a SHORT engine whose candle table has at least
\* two rows; on a shorter table check_signals returns nothing and the engine
\* is as before.
C10_ShortExit ==
    [][(check_ret'.flip # check_ret.flip /\ strats[1].position = "SHORT")
         => LET s == strats[1]
                t == strats'[1]
                sig == check_ret'.signal
            IN  /\ sig \in {None, "BUY"}
                /\ sig = "BUY" <=> /\ s.df.rows >= 2
                                   /\ \/ 100 * s.df.close >= s.entry_price * (100 + s.sl_pct)
                                      \/ 100 * s.df.close <= s.entry_price * (100 - s.tp_pct)
                                      \/ Lt(s.df.rsi, s.rsi_buy_thresh)
                /\ sig = "BUY" => t = [s EXCEPT !.position = None]
                /\ sig = None => t = s]_vars

\* C10 happens: the last check closed a SHORT exactly at its stop price
C10_Witness ==
    /\ check_ret.signal = "BUY"
    /\ strats[1].position = None
    /\ strats[1].entry_price # 0
    /\ strats[1].df.rows >= 2
    /\ 100 * strats[1].df.close = strats[1].entry_price * (100 + strats[1].sl_pct)
    /\ ~Lt(strats[1].df.rsi, strats[1].rsi_buy_thresh)

\* C11: one check_signals call makes at most one phase transition and returns
\* a signal exactly when it makes one; a LONG engine ends LONG or FLAT and a
\* SHORT engine ends SHORT or FLAT, also when its row is both an exit and an
\* entry of the opposite side.
C11_OneTransitionPerCall ==
    [][(check_ret'.flip # check_ret.flip)
         => LET s == strats[1]
                t == strats'[1]
                sig == check_ret'.signal
            IN  /\ s.position = "LONG" => t.position \in {"LONG", None}
                /\ s.position = "SHORT" => t.position \in {"SHORT", None}
                /\ s.position = None => t.position \in {None, "LONG", "SHORT"}
                /\ sig = None <=> t.position = s.position
                /\ sig \in {None, "BUY", "SELL"}]_vars

\* C11 happens: the last check closed a LONG on a row that is also a short
\* entry, and the engine is FLAT
C11_Witness ==
    /\ check_ret.signal = "SELL"
    /\ strats[1].position = None
    /\ strats[1].entry_price # 0
    /\ strats[1].df.rows >= 2
    /\ Lt(strats[1].df.close, strats[1].df.sma_20)
    /\ Gt(strats[1].df.rsi, strats[1].rsi_sell_thresh)

\* C12: called on a table whose latest row has an undefined SMA or RSI,
\* check_signals returns no signal and leaves the engine as it was, whatever
\* the position phase.
C12_UndefinedRowSuppresses ==
    [][(/\ check_ret'.flip # check_ret.flip
        /\ strats[1].df.rows >= 1
        /\ (strats[1].df.sma_20 = NaN \/ strats[1].df.rsi = NaN))
         => (check_ret'.signal = None /\ strats'[1] = strats[1])]_vars

\* C13: an update() whose fetch failed or came back empty leaves the engine's
\* retained table, position and entry_price as they were.
C13_FailedUpdateKeepsEngine ==
    [][(check_ret'.flip = check_ret.flip /\ ~check_ret'.fetched)
         => strats' = strats]_vars

\* C13 happens: the last update() of a LONG engine fetched nothing and the
\* engine still holds its table
C13_Witness ==
    /\ ~check_ret.fetched
    /\ strats[1].position = "LONG"
    /\ strats[1].entry_price # 0
    /\ strats[1].df.rows >= 20

\* C14: a check_signals call that follows an update() whose fetch failed
\* returns no signal and leaves the position phase as it was.
C14_NoSignalAfterFailedUpdate ==
    [][(check_ret'.flip # check_ret.flip /\ ~check_ret.fetched)
         => (check_ret'.signal = None
             /\ strats'[1].position = strats[1].position)]_vars

----------------------------------------------------------------------------
(* Sessions of one or two symbols: start() calls and the cycles of their   *)
(* loops, with an update or check_signals that can raise                   *)

MaxCycleEngines == 3    \* strategy objects created in one behaviour

CycleRequests ==
    {[mode |-> "SINGLE", symbols |-> <<BTC>>],
     [mode |-> "DUAL", symbols |-> <<BTC, DOGE>>]}

NextCycle ==
    \/ \E req \in CycleRequests : StartEnterWithin(req, MaxCycleEngines)
    \/ \E c \in DOMAIN calls :
          /\ calls[c].pc = "start_update"
          /\ \E table \in StartTables : StartUpdateDoneWithin(c, table, MaxCycleEngines)
    \/ \E c \in DOMAIN calls : \E bal \in FetchedBalances : StartBalanceDone(c, bal)
    \/ \E c \in DOMAIN calls : \E price \in TickerPrices \cup {0} : StartTickerDone(c, price)
    \/ \E l \in DOMAIN loops : LoopIterate(l)
    \/ \E l \in DOMAIN loops :
          /\ loops[l].pc = "update"
          /\ \E table \in CandleTables(strats[loops[l].eng]) : LoopUpdateDone(l, table)
    \/ \E l \in DOMAIN loops : LoopUpdateRaised(l)
    \/ \E l \in DOMAIN loops : \E filled \in BOOLEAN : LoopOrderDone(l, filled)
    \/ \E l \in DOMAIN loops : \E bal \in FetchedBalances : LoopOrderBalanceDone(l, bal)
    \/ \E l \in DOMAIN loops : \E bal \in FetchedBalances : LoopBalanceDone(l, bal)

SpecCycle == Init /\ [][NextCycle]_vars

\* C15: when a symbol's update or check_signals raises, or its order is
\* refused, the controller stays running and the task goes on with the next
\* symbol of the strategies map, or with the end of the cycle after the last.
C15_FaultIsContained ==
    [][\A l \in DOMAIN loops :
          (LoopUpdateRaised(l) \/ LoopOrderDone(l, FALSE))
            => /\ is_running' = is_running
               /\ IF loops[l].i < Len(dicts[loops[l].d])
                    THEN /\ loops'[l].pc = "update"
                         /\ loops'[l].sym = dicts[loops[l].d][loops[l].i + 1][1]
                    ELSE loops'[l].pc = "balance"]_vars

-----------------------------------------------------------------------------
(* The ledger on its own: trade logs of every order, then the ledger        *)

MaxLog == 3            \* records in a trade log
MaxLedgerCalls == 2    \* calls of the ledger on one trade log

LedgerSymbols == {BTC, ETH}
LedgerPrices == {100, 110}
LedgerAmounts(sym) == IF sym = BTC THEN {1, 2} ELSE {1}
\* two instants of the day before and two of the current day
LedgerTimes == {StartTime - SecondsPerDay - 1, StartTime - SecondsPerDay,
                StartTime - 1, StartTime}
\* a record's time as execute_order writes it (line 194, decimal milliseconds)
\* and as an ISO-8601 string
LedgerFormats == {"str(ms)", "iso"}

\* the records of a trade log (lines 193-199)
LedgerRecords ==
    {[time |-> [fmt |-> f, t |-> t], side |-> sd, price |-> p, amount |-> a,
      symbol |-> sym] :
        f \in LedgerFormats, t \in LedgerTimes, sd \in {"BUY", "SELL"},
        p \in LedgerPrices,
        sym \in LedgerSymbols, a \in UNION {LedgerAmounts(x) : x \in LedgerSymbols}}

InitLedger ==
    /\ now = StartTime
    /\ client = "OKXClient"
    /\ balance = EmptyBalance
    /\ is_running = FALSE
    /\ task = 0
    /\ mode = "SINGLE"
    /\ active_symbols = <<>>
    /\ strategies = 1
    /\ dicts = << <<>> >>
    /\ strats = <<>>
    /\ trades = <<>>
    /\ market_prices = NoPrices
    /\ last_trade_times = NoTradeTimes
    /\ session_start_nav = NavUnset
    /\ pnl_history = <<>>
    /\ price_history = NoPriceHistory
    /\ last_history_update = 0
    /\ loops = <<>>
    /\ calls = <<>>
    /\ ncalls = 0
    /\ last = [op |-> None, result |-> None]
    /\ tickers = 0
    /\ orders = <<>>
    /\ check_ret = NoCheckRet
    /\ ledger_ret = NoLedgerRet
    /\ refreshers = NoRefreshers

\* lines 201-202: a record enters the trade log at its head; the records of
\* one log carry their times in one format
RecordTrade(rec) ==
    /\ Len(trades) < MaxLog
    /\ rec.amount \in LedgerAmounts(rec.symbol)
    /\ \A i \in DOMAIN trades : trades[i].time.fmt = rec.time.fmt
    /\ trades' = First(<<rec>> \o trades, TradeCap)
    /\ ledger_ret' = NoLedgerRet
    /\ UNCHANGED <<now, client, is_running, task, mode, active_symbols, strategies,
                   dicts, strats, balance, market_prices, last_trade_times,
                   session_start_nav, pnl_history, price_history,
                   last_history_update, loops, calls, ncalls, last, tickers,
                   orders, check_ret, refreshers>>

\* self.calculate_daily_realized_pnl()
LedgerCall ==
    /\ ledger_ret.calls < MaxLedgerCalls
    /\ ledger_ret' = [calls |-> ledger_ret.calls + 1,
                      pnl |-> calculate_daily_realized_pnl(trades, Day(now))]
    /\ trades' = TradesAfterLedger(trades)
    /\ UNCHANGED <<now, client, is_running, task, mode, active_symbols, strategies,
                   dicts, strats, balance, market_prices, last_trade_times,
                   session_start_nav, pnl_history, price_history,
                   last_history_update, loops, calls, ncalls, last, tickers,
                   orders, check_ret, refreshers>>

NextLedger ==
    \/ \E rec \in LedgerRecords : RecordTrade(rec)
    \/ LedgerCall

SpecLedger == InitLedger /\ [][NextLedger]_vars

\* the records of a log with pairwise distinct times, earliest first
DistinctTimes(log) ==
    \A i, j \in DOMAIN log : i # j => log[i].time.t # log[j].time.t
Chronological(log) ==
    [i \in 1..Len(log) |->
        log[CHOOSE j \in DOMAIN log :
                Cardinality({k \in DOMAIN log : log[k].time.t < log[j].time.t}) = i - 1]]

RECURSIVE UnitsOf(_, _, _)
\* the unit lots of a symbol's records of one side, one entry per unit of
\* amount, in the order of the records
UnitsOf(records, sym, side) ==
    IF records = <<>> THEN <<>>
    ELSE LET rec == Head(records)
         IN  (IF rec.symbol = sym /\ rec.side = side
                THEN [k \in 1..rec.amount |-> [price |-> rec.price, day |-> Day(rec.time.t)]]
                ELSE <<>>)
             \o UnitsOf(Tail(records), sym, side)

\* no SELL exceeds the lots bought before it for its symbol
NeverOversold(records) ==
    \A n \in 0..Len(records) : \A sym \in Symbols :
        Len(UnitsOf(SubSeq(records, 1, n), sym, "SELL"))
            <= Len(UnitsOf(SubSeq(records, 1, n), sym, "BUY"))

RECURSIVE SumOver(_, _)
SumOver(f, S) ==
    IF S = {} THEN 0 ELSE LET x == CHOOSE y \in S : TRUE IN f[x] + SumOver(f, S \ {x})

\* first in, first out: the k-th unit sold of a symbol is matched with the
\* k-th unit bought; the units sold on the given day count
FifoPnl(records, today) ==
    SumOver([sym \in Symbols |->
                LET bought == UnitsOf(records, sym, "BUY")
                    sold == UnitsOf(records, sym, "SELL")
                IN  SumOver([k \in DOMAIN sold |->
                                IF sold[k].day = today /\ k <= Len(bought)
                                  THEN sold[k].price - bought[k].price ELSE 0],
                            DOMAIN sold)],
            Symbols)

RECURSIVE LotUnits(_)
\* the unit prices of an inventory, front first
LotUnits(inventory) ==
    IF inventory = <<>> THEN <<>>
    ELSE [k \in 1..Head(inventory).amount |-> Head(inventory).price]
           \o LotUnits(Tail(inventory))

\* C16: for a trade log in which no SELL exceeds the lots bought before it for
\* its symbol, the ledger returns the sum over today's SELL records of sale
\* price times amount less the cost of the oldest unconsumed lots of the
\* symbol in time order ([BUY 100 x1, SELL 110 x1] gives 10), and leaves in
\* each symbol's queue the lots not consumed ([BUY 100 x2, SELL 90 x1] gives
\* -10 and leaves one lot of 1 at 100).
C16_FifoRealizedPnl ==
    (ledger_ret.calls > 0 /\ DistinctTimes(trades) /\ NeverOversold(Chronological(trades)))
        => LET records == Chronological(trades)
               left == Ledger(SortByTime(trades), Day(now),
                              [sym \in Symbols |-> <<>>], 0).inventories
           IN  /\ ledger_ret.pnl = FifoPnl(records, Day(now))
               /\ \A sym \in Symbols :
                     LET bought == UnitsOf(records, sym, "BUY")
                         sold == UnitsOf(records, sym, "SELL")
                     IN  LotUnits(left[sym])
                           = [k \in 1..(Len(bought) - Len(sold)) |->
                                 bought[Len(sold) + k].price]

\* the same for the logs whose times are ISO-8601 strings
C16_FifoRealizedPnl_IsoTimes ==
    (\A i \in DOMAIN trades : trades[i].time.fmt = "iso") => C16_FifoRealizedPnl

\* the ledger's pass over the first n records of the log in time order
LedgerAfter(n) ==
    Ledger(SubSeq(SortByTime(trades), 1, n), Day(now), [sym \in Symbols |-> <<>>], 0)

\* C17: a SELL whose amount exceeds the lots left in its symbol's queue does
\* not stop the ledger: the lots of the queue are consumed at their cost, the
\* part of the sale beyond them adds nothing to the realized PnL, and the
\* queue is left empty.
C17_OversellIsTolerated ==
    /\ ledger_ret.calls > 0 => ledger_ret.pnl = LedgerAfter(Len(trades)).daily_realized_pnl
    /\ \A n \in DOMAIN trades :
          LET rec == SortByTime(trades)[n]
              queue == LotUnits(LedgerAfter(n - 1).inventories[rec.symbol])
          IN  (Parses(rec.time) /\ rec.side = "SELL" /\ rec.amount > Len(queue))
                => /\ LedgerAfter(n).inventories[rec.symbol] = <<>>
                   /\ LedgerAfter(n).daily_realized_pnl
                        = LedgerAfter(n - 1).daily_realized_pnl
                            + (IF Day(rec.time.t) = Day(now)
                                 THEN SumOver([k \in DOMAIN queue |-> rec.price - queue[k]],
                                              DOMAIN queue)
                                 ELSE 0)

\* the ledger has returned for a log in which a SELL of 2 found one lot of 1
C17_Witness ==
    /\ ledger_ret.calls > 0
    /\ Len(trades) = 2
    /\ \A i \in DOMAIN trades : trades[i].time.fmt = "iso" /\ trades[i].symbol = BTC
    /\ trades[2].side = "BUY" /\ trades[2].amount = 1 /\ trades[2].price = 100
    /\ trades[1].side = "SELL" /\ trades[1].amount = 2 /\ trades[1].price = 110
    /\ trades[2].time.t < trades[1].time.t
    /\ ledger_ret.pnl = 10

Reorderings(log) ==
    {[i \in DOMAIN log |-> log[p[i]]] :
        p \in {q \in [DOMAIN log -> DOMAIN log] : \A i, j \in DOMAIN log : i # j => q[i] # q[j]}}

\* C19: for a trade log whose records have pairwise distinct times, what the
\* ledger returns is what it returns for the same records stored in any
\* other order.
C19_OrderOfLogIsIrrelevant ==
    (ledger_ret.calls > 0 /\ DistinctTimes(trades))
        => \A log \in Reorderings(trades) :
              calculate_daily_realized_pnl(log, Day(now)) = ledger_ret.pnl

\* the ledger has returned a gain for three records of distinct times of
\* which the first stored is not the earliest
C19_Witness ==
    /\ ledger_ret.calls > 0
    /\ Len(trades) = 3
    /\ DistinctTimes(trades)
    /\ trades[1].time.t > trades[2].time.t
    /\ ledger_ret.pnl > 0

\* the records of one symbol, in the order of the log
OfSymbol(log, sym) == SelectSeq(log, LAMBDA rec : rec.symbol = sym)

\* C20: lots are matched symbol by symbol: what the ledger returns is the sum
\* of what it returns for each symbol's records alone, and it leaves in a
\* symbol's queue what that symbol's records alone leave there, whatever the
\* records of the other symbols.
C20_MatchingIsPerSymbol ==
    ledger_ret.calls > 0
        => /\ ledger_ret.pnl
                = SumOver([sym \in Symbols |->
                              calculate_daily_realized_pnl(OfSymbol(trades, sym), Day(now))],
                          Symbols)
           /\ \A sym \in Symbols :
                 LedgerAfter(Len(trades)).inventories[sym]
                    = Ledger(SortByTime(OfSymbol(trades, sym)), Day(now),
                             [x \in Symbols |-> <<>>], 0).inventories[sym]

\* the ledger has returned 10 for a purchase of ETH/USDT at 110 followed by a
\* purchase of BTC/USDT at 100 and its sale at 110
C20_Witness ==
    /\ ledger_ret.calls > 0
    /\ ledger_ret.pnl = 10
    /\ Len(trades) = 3
    /\ trades[3].symbol = ETH /\ trades[3].side = "BUY" /\ trades[3].price = 110
    /\ trades[2].symbol = BTC /\ trades[2].side = "BUY" /\ trades[2].price = 100
    /\ trades[1].symbol = BTC /\ trades[1].side = "SELL" /\ trades[1].price = 110
    /\ trades[3].time.t < trades[2].time.t /\ trades[2].time.t < trades[1].time.t

\* what a SELL, the n-th record in time order, realizes: its units against
\* the units bought for its symbol that the SELLs before it, of any day, left
Realized(records, n) ==
    LET rec == records[n]
        bought == UnitsOf(records, rec.symbol, "BUY")
        sold_before == Len(UnitsOf(SubSeq(records, 1, n - 1), rec.symbol, "SELL"))
    IN  SumOver([k \in 1..rec.amount |-> rec.price - bought[sold_before + k].price],
                1..rec.amount)

\* C21: the ledger returns the sum, over the SELL records of all symbols dated
\* on the day of the call, of what each realizes against the lots that the
\* earlier SELLs of its symbol left, those of earlier days included; a SELL of
\* an earlier day adds nothing itself.
C21_OnlyTodaysSellsCount ==
    (ledger_ret.calls > 0 /\ DistinctTimes(trades) /\ NeverOversold(Chronological(trades)))
        => LET records == Chronological(trades)
               todays == {n \in DOMAIN records :
                             records[n].side = "SELL" /\ Day(records[n].time.t) = Day(now)}
           IN  ledger_ret.pnl = SumOver([n \in todays |-> Realized(records, n)], todays)

\* the same for the logs whose times are ISO-8601 strings
C21_OnlyTodaysSellsCount_IsoTimes ==
    (\A i \in DOMAIN trades : trades[i].time.fmt = "iso") => C21_OnlyTodaysSellsCount

\* C22: for a trade log with no SELL dated on the day of the call (an empty
\* log, a day with BUYs only), the ledger returns 0.
C22_NoSellTodayIsZero ==
    (/\ ledger_ret.calls > 0
     /\ \A i \in DOMAIN trades :
           ~(trades[i].side = "SELL" /\ Day(trades[i].time.t) = Day(now)))
        => ledger_ret.pnl = 0

\* the ledger has returned for a purchase at 100 sold at 110 the day before
\* and a purchase today
C22_Witness ==
    /\ ledger_ret.calls > 0
    /\ Len(trades) = 3
    /\ \A i \in DOMAIN trades : trades[i].time.fmt = "iso" /\ trades[i].symbol = BTC
    /\ trades[3].side = "BUY" /\ trades[3].price = 100
    /\ trades[2].side = "SELL" /\ trades[2].price = 110
    /\ trades[3].time.t < trades[2].time.t
    /\ Day(trades[2].time.t) < Day(now)
    /\ trades[1].side = "BUY" /\ Day(trades[1].time.t) = Day(now)

-----------------------------------------------------------------------------
(* Retention: the trade log against the fills made since it began          *)

MaxFills == 21    \* fills in one behaviour
MaxOpen == 2      \* units bought and not yet sold

\* the fills of one symbol: purchases at 100, sales at 110, one unit each
FillRecords(f) ==
    {[time |-> [fmt |-> f, t |-> now], side |-> sd,
      price |-> IF sd = "BUY" THEN 100 ELSE 110, amount |-> 1, symbol |-> BTC] :
        sd \in {"BUY", "SELL"}}

\* execute_order lines 190-202 on a fill, a cooldown after the fill before:
\* the record enters the trade log, which keeps its first TradeCap records;
\* orders keeps every fill made
Fill(rec) ==
    /\ Len(orders) < MaxFills
    /\ \A i \in DOMAIN orders : orders[i].time.fmt = rec.time.fmt
    /\ LET open == Len(UnitsOf(orders, BTC, "BUY")) - Len(UnitsOf(orders, BTC, "SELL"))
       IN  IF rec.side = "BUY" THEN open < MaxOpen ELSE open > 0
    /\ trades' = First(<<rec>> \o trades, TradeCap)
    /\ orders' = Append(orders, rec)
    /\ now' = now + Cooldown + 1
    /\ ledger_ret' = NoLedgerRet
    /\ UNCHANGED <<client, is_running, task, mode, active_symbols, strategies,
                   dicts, strats, balance, market_prices, last_trade_times,
                   session_start_nav, pnl_history, price_history,
                   last_history_update, loops, calls, ncalls, last, tickers,
                   check_ret, refreshers>>

NextRetention ==
    \/ \E f \in LedgerFormats : \E rec \in FillRecords(f) : Fill(rec)
    \/ LedgerCall

SpecRetention == InitLedger /\ [][NextRetention]_vars

\* C23: whatever the number of fills made since the trade log began, the
\* ledger returns the first-in-first-out realized PnL of all of them (here
\* for fills whose times are ISO-8601 strings, all of the current day).
C23_LedgerSeesEveryFill ==
    (ledger_ret.calls > 0 /\ \A i \in DOMAIN orders : orders[i].time.fmt = "iso")
        => ledger_ret.pnl = FifoPnl(orders, Day(now))

\* the same while the fills are no more than the trade log keeps
C23_LedgerSeesEveryFill_WithinCap ==
    Len(orders) <= TradeCap => C23_LedgerSeesEveryFill

\* C24: a signal for a symbol that has no last-trade time, or whose last-trade
\* time is at least a cooldown window back, is sent to the Order Gateway in
\* the cycle in which check_signals returned it.
C24_SignalAfterCooldownExecutes ==
    [][\A l \in DOMAIN loops :
          loops[l].pc = "update" =>
            \A table \in CandleTables(strats[loops[l].eng]) :
               (/\ LoopUpdateDone(l, table)
                /\ check_signals(update(strats[loops[l].eng], table)).signal # None
                /\ \/ last_trade_times[loops[l].sym] = 0
                   \/ now - last_trade_times[loops[l].sym] >= Cooldown)
                 => /\ Len(orders') = Len(orders) + 1
                    /\ orders'[Len(orders')].symbol = loops[l].sym
                    /\ loops'[l].pc = "order"]_vars

\* C25: a step of a cycle on one symbol (its signal sent or dropped, its order
\* filled or refused, the refresh after its fill) leaves the last-trade time
\* of every other symbol as it was, and a signal for a symbol outside its own
\* cooldown window is sent whatever the last-trade times of the other symbols.
C25_CooldownIsPerSymbol ==
    [][\A l \in DOMAIN loops :
          loops[l].pc \in {"update", "order", "order_balance"} =>
            /\ (\/ \E table \in CandleTables(strats[loops[l].eng]) : LoopUpdateDone(l, table)
                \/ \E filled \in BOOLEAN : LoopOrderDone(l, filled)
                \/ \E bal \in FetchedBalances : LoopOrderBalanceDone(l, bal))
                 => \A sym \in Symbols \ {loops[l].sym} :
                        last_trade_times'[sym] = last_trade_times[sym]
            /\ loops[l].pc = "update" =>
                 \A table \in CandleTables(strats[loops[l].eng]) :
                    (/\ LoopUpdateDone(l, table)
                     /\ check_signals(update(strats[loops[l].eng], table)).signal # None
                     /\ CooldownOver(now, last_trade_times[loops[l].sym]))
                      => /\ Len(orders') = Len(orders) + 1
                         /\ orders'[Len(orders')].symbol = loops[l].sym]_vars

\* an order for DOGE/USDT was sent in the cooldown window of BTC/USDT's last trade
C25_Witness ==
    /\ Len(orders) = 2
    /\ orders[1].symbol = BTC /\ orders[2].symbol = DOGE
    /\ orders[1].loop = orders[2].loop
    /\ last_trade_times[BTC] # 0
    /\ orders[2].time - last_trade_times[BTC] < Cooldown

-----------------------------------------------------------------------------
(* The history buffers over many cycles                                    *)

MaxHistoryCycles == 205    \* cycles in one behaviour
SleepSeconds == 5          \* asyncio.sleep(5) at the end of a cycle

\* the controller running BTC/USDT, its price known, with or without a
\* session baseline
InitHistory ==
    /\ now = StartTime
    /\ client = "OKXClient"
    /\ balance = Balance(90, 1)
    /\ is_running = TRUE
    /\ task = 0
    /\ mode = "SINGLE"
    /\ active_symbols = <<BTC>>
    /\ strategies = 1
    /\ dicts = << <<>> >>
    /\ strats = <<>>
    /\ trades = <<>>
    /\ market_prices = [NoPrices EXCEPT ![BTC] = 10]
    /\ last_trade_times = NoTradeTimes
    /\ session_start_nav \in {NavUnset, [set |-> TRUE, value |-> 90]}
    /\ pnl_history = <<>>
    /\ price_history = NoPriceHistory
    /\ last_history_update = 0
    /\ loops = <<>>
    /\ calls = <<>>
    /\ ncalls = 0
    /\ last = [op |-> None, result |-> None]
    /\ tickers = 0
    /\ orders = <<>>
    /\ check_ret = NoCheckRet
    /\ ledger_ret = NoLedgerRet
    /\ refreshers = NoRefreshers

\* lines 162-171 of a cycle without a signal: the balance fetch has returned,
\* update_history_data runs and the task sleeps
HistoryCycle(bal) ==
    /\ now < StartTime + SleepSeconds * MaxHistoryCycles
    /\ balance' = IF bal.kind = "dict" THEN bal ELSE balance
    /\ LET h == update_history_data(now, IF bal.kind = "dict" THEN bal ELSE balance)
       IN  /\ last_history_update' = h.last
           /\ pnl_history' = h.pnl
           /\ price_history' = h.price
    /\ now' = now + SleepSeconds
    /\ UNCHANGED <<client, is_running, task, mode, active_symbols, strategies,
                   dicts, strats, trades, market_prices, last_trade_times,
                   session_start_nav, loops, calls, ncalls, last, tickers, orders,
                   check_ret, ledger_ret, refreshers>>

NextHistory == \E bal \in FetchedBalances : HistoryCycle(bal)

SpecHistory == InitHistory /\ [][NextHistory]_vars

\* the points of a buffer are no more than the cap, in increasing time
WithinCapInTimeOrder(buffer) ==
    /\ Len(buffer) <= HistoryCap
    /\ \A i, j \in DOMAIN buffer : i < j => buffer[i].time < buffer[j].time

\* a buffer after a point was added at time t: the point is its last, behind
\* the points it had, less the oldest if it was full
PointAdded(old, new, t) ==
    /\ new # <<>>
    /\ new[Len(new)].time = t
    /\ SubSeq(new, 1, Len(new) - 1) = IF Len(old) = HistoryCap THEN Tail(old) ELSE old

\* C26: the PnL history and every symbol's price history hold at most 100
\* points in increasing time after every cycle; a cycle in which the history
\* is updated puts a point of the current time last in the PnL history and in
\* the price history of the traded symbol and, when the buffer is full, drops
\* the oldest point and no other; any other cycle leaves the buffers alone.
C26_HistoryIsBounded ==
    [][/\ WithinCapInTimeOrder(pnl_history')
       /\ \A sym \in Symbols : WithinCapInTimeOrder(price_history'[sym])
       /\ last_history_update' # last_history_update
            => /\ PointAdded(pnl_history, pnl_history', now)
               /\ PointAdded(price_history[BTC], price_history'[BTC], now)
       /\ last_history_update' = last_history_update
            => pnl_history' = pnl_history /\ price_history' = price_history]_vars

\* both buffers are full and their oldest points have been dropped
C26_Witness ==
    /\ Len(pnl_history) = HistoryCap
    /\ Len(price_history[BTC]) = HistoryCap
    /\ pnl_history[1].time > StartTime
    /\ price_history[BTC][1].time > StartTime

\* C27: while the controller is stopped and no start() is under way there is
\* no session baseline: stop() clears the one that start() set, so that a
\* session never runs on the baseline of an earlier one.
C27_NoBaselineWhileStopped ==
    (~is_running /\ \A c \in DOMAIN calls : calls[c].op # "start")
        => ~session_start_nav.set

\* C28: the balance cache changes only to a balance that a fetch returned: a
\* fetch that failed, in the cycle, after a fill or in start(), leaves the
\* cache as it was.
C28_FailedFetchKeepsBalance ==
    [][balance' # balance => HasTotal(balance')]_vars

\* the same for the cycle's own fetch (lines 163-166) alone
C28_FailedFetchKeepsBalance_InCycle ==
    [][\A l \in DOMAIN loops : \A bal \in FetchedBalances :
          (LoopBalanceDone(l, bal) /\ balance' # balance) => HasTotal(balance')]_vars

\* C29: when place_order returns a fill, one record with the signal's side
\* and symbol and the symbol's order size (0.001 BTC, 100 DOGE) is put at the
\* head of the trade log, whose earlier records stay, and the balance refresh
\* is awaited; when place_order fails, the trade log and the balance cache
\* stay as they were and no refresh is awaited.
C29_FillAddsOneRecord ==
    [][\A l \in DOMAIN loops :
          /\ LoopOrderDone(l, TRUE)
               => /\ trades' # <<>>
                  /\ trades'[1].side = loops[l].signal
                  /\ trades'[1].symbol = loops[l].sym
                  /\ trades'[1].amount = (IF loops[l].sym = BTC THEN 1 ELSE 100000)
                  /\ Len(trades) < TradeCap => Tail(trades') = trades
                  /\ loops'[l].pc = "order_balance"
          /\ LoopOrderDone(l, FALSE)
               => /\ trades' = trades
                  /\ balance' = balance
                  /\ loops'[l].pc # "order_balance"]_vars

\* a fill of DOGE/USDT was recorded after one of BTC/USDT and its balance
\* refresh has returned
C29_Witness ==
    /\ Len(trades) = 2
    /\ trades[1].symbol = DOGE /\ trades[1].amount = 100000
    /\ trades[2].symbol = BTC /\ trades[2].amount = 1
    /\ \A l \in DOMAIN loops : loops[l].pc \notin {"order", "order_balance"}

-----------------------------------------------------------------------------
(* AdvancedStrategy: the moving-average and MACD engine on its own         *)

\* self.df = None (line 10)
AdvancedNoDf == [rows |-> 0]

\* AdvancedStrategy() (lines 6-10)
NewAdvancedStrategy(sym) == [symbol |-> sym, df |-> AdvancedNoDf]

\* the last two rows of a candle table with its indicators (lines 17-32)
AdvancedRows ==
    [sma_short : {99, 100, 101}, sma_long : {100},
     macd : {-1, 0, 1}, signal_line : {0}, rsi : {NaN, 25, 50, 75}]
\* the row before the last: check_signals reads its macd and signal_line
AdvancedPrevRows == {row \in AdvancedRows : row.sma_short = 100 /\ row.rsi = 50}

AdvancedTables ==
    {AdvancedNoDf}
    \cup {[rows |-> 1, curr |-> curr, prev |-> curr] : curr \in AdvancedRows}
    \cup {[rows |-> 100, curr |-> curr, prev |-> prev] :
             curr \in AdvancedRows, prev \in AdvancedPrevRows}

\* update (lines 12-35): when the fetch brought nothing, df['close'] raises
\* and self.df stays; otherwise self.df is the fetched table (line 34)
advanced_update(s, fetched) ==
    IF fetched.rows = 0 THEN s ELSE [s EXCEPT !.df = fetched]

\* check_signals (lines 96-124)
advanced_check_signals(s) ==
    IF s.df.rows < 2 THEN None
    ELSE LET curr == s.df.curr
             prev == s.df.prev
             is_uptrend == curr.sma_short > curr.sma_long
             is_downtrend == curr.sma_short < curr.sma_long
             macd_cross_up == prev.macd < prev.signal_line /\ curr.macd > curr.signal_line
             macd_cross_down == prev.macd > prev.signal_line /\ curr.macd < curr.signal_line
             rsi_buy_ok == Lt(curr.rsi, 70)
             rsi_sell_ok == Gt(curr.rsi, 30)
         IN  IF is_uptrend /\ macd_cross_up /\ rsi_buy_ok THEN "BUY"
             ELSE IF is_downtrend /\ macd_cross_down /\ rsi_sell_ok THEN "SELL"
             ELSE None

InitAdvanced ==
    /\ now = StartTime
    /\ client = "OKXClient"
    /\ balance = EmptyBalance
    /\ is_running = FALSE
    /\ task = 0
    /\ mode = "SINGLE"
    /\ active_symbols = <<>>
    /\ strategies = 1
    /\ dicts = << <<>> >>
    /\ strats = <<NewAdvancedStrategy(BTC)>>
    /\ trades = <<>>
    /\ market_prices = NoPrices
    /\ last_trade_times = NoTradeTimes
    /\ session_start_nav = NavUnset
    /\ pnl_history = <<>>
    /\ price_history = NoPriceHistory
    /\ last_history_update = 0
    /\ loops = <<>>
    /\ calls = <<>>
    /\ ncalls = 0
    /\ last = [op |-> None, result |-> None]
    /\ tickers = 0
    /\ orders = <<>>
    /\ check_ret = NoCheckRet
    /\ ledger_ret = NoLedgerRet
    /\ refreshers = NoRefreshers

\* await strategy.update() with the fetch returning the given table
AdvancedUpdate(table) ==
    /\ strats' = [strats EXCEPT ![1] = advanced_update(strats[1], table)]
    /\ check_ret' = [check_ret EXCEPT !.fetched = (table.rows # 0)]
    /\ UNCHANGED <<now, ctl_vars, ledger_ret, refreshers>>

\* strategy.check_signals()
AdvancedCheck ==
    /\ check_ret' = [check_ret EXCEPT !.signal = advanced_check_signals(strats[1]),
                                      !.flip = ~check_ret.flip]
    /\ UNCHANGED <<now, ctl_vars, strats, ledger_ret, refreshers>>

NextAdvanced ==
    \/ \E table \in AdvancedTables : AdvancedUpdate(table)
    \/ AdvancedCheck

SpecAdvanced == InitAdvanced /\ [][NextAdvanced]_vars

\* C30: a call of check_signals that follows a call which returned BUY does
\* not return BUY, and one that follows a call which returned SELL does not
\* return SELL: no second entry in the direction of the position just opened.
C30_NoRepeatedEntry ==
    [][(check_ret'.flip # check_ret.flip /\ check_ret.signal # None)
         => check_ret'.signal # check_ret.signal]_vars

\* C31: an order that the Order Gateway refuses leaves every last-trade time
\* as it was: the symbol's cooldown window is not started or restarted by the
\* failed attempt.
C31_RefusedOrderKeepsCooldown ==
    [][\A l \in DOMAIN loops :
          LoopOrderDone(l, FALSE) => last_trade_times' = last_trade_times]_vars

\* C32: the trade log is the fills made so far, newest first, each as it was
\* recorded, less the oldest beyond the retention bound of 20: a fill puts one
\* record at the head, only the oldest records are dropped, and no record in
\* the log is modified.
C32_TradeLogIsNewestFirst ==
    /\ Len(trades) <= TradeCap
    /\ Len(trades) = (IF Len(orders) <= TradeCap THEN Len(orders) ELSE TradeCap)
    /\ \A i \in DOMAIN trades : trades[i] = orders[Len(orders) - i + 1]

\* more fills were made than the trade log keeps
C32_Witness ==
    /\ Len(orders) > TradeCap
    /\ Len(trades) = TradeCap
    /\ ledger_ret.calls > 0

----------------------------------------------------------------------------
(* The background refreshers beside the cycle: update_tickers, update_news *)
(* and run_scanner, spawned by run_loop at its 2nd, 60th and 120th cycles. *)

RefreshStartCycles == 118   \* cycles the session has made when it is taken up
RefreshCycles == 120        \* cycles begun in one behaviour

\* what news_analyzer.get_market_summary can return
NewsSummaries == {"bullish", "bearish"}
\* what the filter of lines 91-110 can leave of the exchange's tickers
ScannerCandidates == {<<>>, <<"SOL/USDT">>}
\* how the fetch and filter of run_scanner can end
ScannerOutcomes ==
    {[raised |-> TRUE, candidates |-> <<>>]}
      \cup {[raised |-> FALSE, candidates |-> c] : c \in ScannerCandidates}

\* update_news with the handler of line 81 resetting the cache
update_news_resets(analyzer, sentiment, summary) ==
    IF analyzer = None THEN sentiment
    ELSE IF summary = None THEN "{}" ELSE summary
\* update_news lines 77-82: market_sentiment after the task, whose fetch or
\* summary raised when summary is None
update_news(analyzer, sentiment, summary) ==
    IF analyzer = None \/ summary = None THEN sentiment ELSE summary

\* update_news has run to its end; the analyzer exists when initialize
\* created the client (lines 48, 59)
NewsDone(summary) ==
    /\ refreshers.news > 0
    /\ refreshers' = [refreshers EXCEPT
                        !.news = @ - 1,
                        !.market_sentiment = update_news(client, @, summary)]
    /\ UNCHANGED <<now, ctl_vars, strats, check_ret, ledger_ret>>

\* run_scanner has run to its end: without a client it returns at line 86,
\* a fetch or filter that raised leaves lines 111-112 unrun
ScannerDone(outcome) ==
    /\ refreshers.scans > 0
    /\ refreshers' =
         IF client = None \/ outcome.raised
           THEN [refreshers EXCEPT !.scans = @ - 1]
           ELSE [refreshers EXCEPT !.scans = @ - 1,
                                   !.scanner_results = First(outcome.candidates, 10),
                                   !.scanner_last_update = now]
    /\ UNCHANGED <<now, ctl_vars, strats, check_ret, ledger_ret>>

\* the points update_history_data has stored by time t, one every
\* HistoryEvery seconds since StartTime, all of the given value
HistoryUpTo(t, v) ==
    [k \in 1..((t - StartTime) \div HistoryEvery + 1) |->
        [time |-> StartTime + HistoryEvery * (k - 1), value |-> v]]

\* a BTC session that has made RefreshStartCycles cycles and sleeps: it
\* bought at its first cycle and holds the position, the news task of
\* initialize() has ended, no refresher is in flight
InitRefresh ==
    /\ now = StartTime + SleepSeconds * RefreshStartCycles
    /\ client = "OKXClient"
    /\ balance = Balance(90, 1)
    /\ is_running = TRUE
    /\ task = 1
    /\ mode = "SINGLE"
    /\ active_symbols = <<BTC>>
    /\ strategies = 2
    /\ dicts = << <<>>, << <<BTC, 1>> >> >>
    /\ strats = << check_signals(update(NewStrategy(BTC),
                                         IndicatorTable(NewStrategy(BTC), 20, 100, 99, 20))).strat >>
    /\ trades = << [time |-> [fmt |-> "str(ms)", t |-> StartTime], side |-> "BUY",
                    price |-> 100, amount |-> Amount(BTC), symbol |-> BTC] >>
    /\ market_prices = [sym \in Symbols |-> 10]
    /\ last_trade_times = Stamp(NoTradeTimes, BTC, StartTime)
    /\ session_start_nav = [set |-> TRUE, value |-> 100]
    /\ pnl_history = HistoryUpTo(now - SleepSeconds, 0)
    /\ price_history = [sym \in Symbols |->
                          IF sym = BTC THEN HistoryUpTo(now - SleepSeconds, 10) ELSE <<>>]
    /\ last_history_update = Head(pnl_history).time + HistoryEvery * (Len(pnl_history) - 1)
    /\ loops = << [pc |-> "sleep", loop_count |-> RefreshStartCycles, d |-> 2, i |-> 1,
                   n |-> 1, sym |-> BTC, eng |-> 1, signal |-> "BUY", t |-> StartTime] >>
    /\ calls = <<>>
    /\ ncalls = 1
    /\ last = [op |-> "start", result |-> "Started"]
    /\ tickers = 0
    /\ orders = << [symbol |-> BTC, side |-> "BUY", time |-> StartTime, loop |-> 1,
                    resets |-> 1] >>
    /\ check_ret = NoCheckRet
    /\ ledger_ret = NoLedgerRet
    /\ refreshers \in {[NoRefreshers EXCEPT !.market_sentiment = s] :
                         s \in NewsSummaries \cup {"{}"}}

NextRefresh ==
    \/ \E l \in DOMAIN loops : LoopIterateWithin(l, RefreshCycles)
    \/ \E l \in DOMAIN loops :
          /\ loops[l].pc = "update"
          /\ \E table \in CandleTables(strats[loops[l].eng]) : LoopUpdateDone(l, table)
    \/ \E l \in DOMAIN loops : \E filled \in BOOLEAN : LoopOrderDone(l, filled)
    \/ \E l \in DOMAIN loops : \E bal \in FetchedBalances : LoopOrderBalanceDone(l, bal)
    \/ \E l \in DOMAIN loops : \E bal \in FetchedBalances : LoopBalanceDone(l, bal)
    \/ \E price \in TickerPrices \cup {0} : TickersDone(price)
    \/ \E summary \in NewsSummaries \cup {None} : NewsDone(summary)
    \/ \E outcome \in ScannerOutcomes : ScannerDone(outcome)

SpecRefresh == InitRefresh /\ [][NextRefresh]_vars

\* a step in which a ticker, news or scanner task ends
TickerTaskEnds == tickers' < tickers
NewsTaskEnds == refreshers'.news < refreshers.news
ScannerTaskEnds == refreshers'.scans < refreshers.scans

C34_PhaseChangesOnlyWithOrder ==
    [][\A l \in DOMAIN loops :
         /\ (/\ loops[l].pc = "update"
             /\ loops'[l] # loops[l]
             /\ loops'[l].pc # "order")
              => /\ strats'[loops[l].eng].position = strats[loops[l].eng].position
                 /\ strats'[loops[l].eng].entry_price = strats[loops[l].eng].entry_price
         /\ LoopOrderDone(l, FALSE)
              => /\ loops[l].signal = "BUY" => strats'[loops[l].eng].position # "LONG"
                 /\ loops[l].signal = "SELL" => strats'[loops[l].eng].position # "SHORT"
      ]_vars

\* the first half alone: a signal dropped by the cooldown filter
C34_DroppedSignalKeepsPhase ==
    [][\A l \in DOMAIN loops :
         (loops[l].pc = "update" /\ loops'[l] # loops[l] /\ loops'[l].pc # "order")
           => strats'[loops[l].eng].position = strats[loops[l].eng].position]_vars

\* the second half alone: an order the gateway refused
C34_RefusedOrderKeepsPhase ==
    [][\A l \in DOMAIN loops :
         LoopOrderDone(l, FALSE)
           => /\ loops[l].signal = "BUY" => strats'[loops[l].eng].position # "LONG"
              /\ loops[l].signal = "SELL" => strats'[loops[l].eng].position # "SHORT"]_vars

----------------------------------------------------------------------------
(* One session on BTC/USDT, from the return of start() on: the cycles of   *)
(* its loop and the passing of time                                        *)

SessionCycles == 3      \* cycles begun in one behaviour

\* start() has returned "Started" for BTC/USDT: the engine is new, its first
\* fetch failed, the balance and a ticker price are known, the task is created
InitSession ==
    /\ now = StartTime
    /\ client = "OKXClient"
    /\ balance = Balance(90, 1)
    /\ is_running = TRUE
    /\ task = 1
    /\ mode = "SINGLE"
    /\ active_symbols = <<BTC>>
    /\ strategies = 2
    /\ dicts = << <<>>, << <<BTC, 1>> >> >>
    /\ strats = << NewStrategy(BTC) >>
    /\ trades = <<>>
    /\ market_prices = [NoPrices EXCEPT ![BTC] = 10]
    /\ last_trade_times = NoTradeTimes
    /\ session_start_nav = [set |-> TRUE, value |-> 100]
    /\ pnl_history = <<>>
    /\ price_history = NoPriceHistory
    /\ last_history_update = 0
    /\ loops = << NewLoop >>
    /\ calls = <<>>
    /\ ncalls = 1
    /\ last = [op |-> "start", result |-> "Started"]
    /\ tickers = 0
    /\ orders = <<>>
    /\ check_ret = NoCheckRet
    /\ ledger_ret = NoLedgerRet
    /\ refreshers = NoRefreshers

NextSession ==
    \/ \E l \in DOMAIN loops : LoopIterateWithin(l, SessionCycles)
    \/ \E l \in DOMAIN loops :
          /\ loops[l].pc = "update"
          /\ \E table \in CandleTables(strats[loops[l].eng]) : LoopUpdateDone(l, table)
    \/ \E l \in DOMAIN loops : \E filled \in BOOLEAN : LoopOrderDone(l, filled)
    \/ \E l \in DOMAIN loops : \E bal \in FetchedBalances : LoopOrderBalanceDone(l, bal)
    \/ \E l \in DOMAIN loops : \E bal \in FetchedBalances : LoopBalanceDone(l, bal)
    \/ \E price \in TickerPrices \cup {0} : TickersDone(price)
    \/ \E d \in {Cooldown, Cooldown + 1} : Tick(d)

SpecSession == InitSession /\ [][NextSession]_vars

RECURSIVE NetFills(_, _)
\* filled BUY orders minus filled SELL orders of a symbol in a trade log
NetFills(log, sym) ==
    IF log = <<>> THEN 0
    ELSE NetFills(Tail(log), sym)
           + (IF Head(log).symbol # sym THEN 0
              ELSE IF Head(log).side = "BUY" THEN 1 ELSE -1)

\* C35: within a session, for every symbol, the filled BUY orders minus the
\* filled SELL orders number -1, 0 or +1: no second order fills in one
\* direction before an opposite one has filled.
C35_ExposureWithinOneOrder ==
    \A sym \in Symbols : NetFills(trades, sym) \in {-1, 0, 1}

\* C36: for one TrendRSI engine that started FLAT, after any sequence of
\* update and check_signals calls the BUY signals returned so far less the
\* SELL signals returned so far number +1 when the engine is LONG, -1 when
\* it is SHORT and 0 when it is FLAT.
C36_SignalsMirrorPhase ==
    check_ret.net = (IF strats[1].position = "LONG" THEN 1
                     ELSE IF strats[1].position = "SHORT" THEN -1 ELSE 0)

\* the engine is SHORT, entered at 94 by the call that returned SELL
C36_Witness ==
    /\ strats[1].position = "SHORT"
    /\ check_ret.signal = "SELL"
    /\ check_ret.net = -1
    /\ strats[1].entry_price = 94

----------------------------------------------------------------------------
(* One engine with its read-only methods: update(), check_signals() and    *)
(* get_strategy_info(), which calls get_next_action, in any order          *)

\* TrendRSIStrategy.get_next_action on the latest row: which of its
\* messages it returns
get_next_action(s) ==
    IF s.df.sma_20 = NaN \/ s.df.rsi = NaN THEN "initializing"
    ELSE IF s.position = None
      THEN IF EntryLong(s) THEN "long entry"
           ELSE IF EntryShort(s) THEN "short entry"
           ELSE "waiting for a signal"
    ELSE IF s.position = "LONG"
      THEN IF 100 * s.df.close <= s.entry_price * (100 - s.sl_pct) THEN "exit: stop loss"
           ELSE IF 100 * s.df.close >= s.entry_price * (100 + s.tp_pct)
             THEN "exit: take profit"
           ELSE IF Gt(s.df.rsi, s.rsi_sell_thresh) THEN "exit: RSI overbought"
           ELSE "holding long"
    ELSE IF 100 * s.df.close >= s.entry_price * (100 + s.sl_pct) THEN "exit: stop loss"
         ELSE IF 100 * s.df.close <= s.entry_price * (100 - s.tp_pct)
           THEN "exit: take profit"
         ELSE IF Lt(s.df.rsi, s.rsi_buy_thresh) THEN "exit: RSI oversold"
         ELSE "holding short"

\* TrendRSIStrategy.get_strategy_info: {} without a table, else the info
\* dict, of which the next_action entry is kept
get_strategy_info(s) == IF s.df.rows = 0 THEN "{}" ELSE get_next_action(s)

\* strategy.get_strategy_info(), as get_status calls it for every engine
EngineInfo ==
    /\ check_ret' = [check_ret EXCEPT !.info = get_strategy_info(strats[1])]
    /\ UNCHANGED <<now, ctl_vars, strats, ledger_ret, refreshers>>

\* candle tables around the entries and exits of an engine that entered at 100
InfoTables(s) ==
    {NoDf} \cup
    {IndicatorTable(s, n, p, sma, rsi) :
        n \in {1, 20}, p \in {94, 100, 106}, sma \in {96, 104}, rsi \in {NaN, 24, 50, 71}}

NextInfo ==
    \/ \E table \in InfoTables(strats[1]) : EngineUpdate(table)
    \/ EngineCheck
    \/ EngineInfo

SpecInfo == InitEngine /\ [][NextInfo]_vars

\* C37: phase and entry_price are changed only by a check_signals call that
\* returns a signal: a call that returns None leaves both, entry_price is
\* written only by an entry from FLAT (an exit leaves it), and update(),
\* get_strategy_info and get_next_action leave both.
C37_OnlyCheckSignalsMovesPosition ==
    [][/\ (check_ret'.flip # check_ret.flip /\ check_ret'.signal = None)
            => /\ strats'[1].position = strats[1].position
               /\ strats'[1].entry_price = strats[1].entry_price
       /\ (check_ret'.flip # check_ret.flip /\ strats[1].position # None)
            => strats'[1].entry_price = strats[1].entry_price
       /\ (check_ret'.flip # check_ret.flip /\ strats'[1].position = None)
            => strats'[1].entry_price = strats[1].entry_price
       /\ check_ret'.flip = check_ret.flip
            => /\ strats'[1].position = strats[1].position
               /\ strats'[1].entry_price = strats[1].entry_price
      ]_vars

\* get_strategy_info ran on an engine that has left a position entered at
\* 100 and met a short entry row: the entry price of the closed position is
\* still there
C37_Witness ==
    /\ strats[1].position = None
    /\ strats[1].entry_price = 100
    /\ check_ret.info = "short entry"
    /\ check_ret.net = 0

\* the order was filled: the trade log holds its record
Filled(o) ==
    \E k \in DOMAIN trades :
        /\ trades[k].symbol = o.symbol
        /\ trades[k].side = o.side
        /\ trades[k].time.t = o.time

\* C38: the cooldown survives a restart: an order is submitted for a symbol
\* only when 300 s have passed since every filled order of that symbol that
\* was submitted before an earlier start() (a start() that followed a stop()).
C38_CooldownSurvivesRestart ==
    [][Len(orders') > Len(orders)
         => \A k \in DOMAIN orders :
               (/\ orders[k].symbol = orders'[Len(orders')].symbol
                /\ orders[k].resets < orders'[Len(orders')].resets
                /\ Filled(orders[k]))
                 => orders'[Len(orders')].time - orders[k].time >= Cooldown]_vars

----------------------------------------------------------------------------
(* start() and stop() calls beside the loops, under a fair scheduler:      *)
(* every external call returns, every runnable coroutine is resumed        *)

StopRequests == {[mode |-> "SINGLE", symbols |-> <<BTC>>]}

\* a suspended start() is resumed by the return of its fetch
StartStep ==
    \/ \E c \in DOMAIN calls :
          /\ calls[c].pc = "start_update"
          /\ \E table \in StartTables : StartUpdateDone(c, table)
    \/ \E c \in DOMAIN calls : \E bal \in FetchedBalances : StartBalanceDone(c, bal)
    \/ \E c \in DOMAIN calls : \E price \in TickerPrices \cup {0} : StartTickerDone(c, price)

\* the task l is resumed: by the end of its sleep or by the return of the
\* call it awaits
LoopStep(l) ==
    \/ LoopIterate(l)
    \/ /\ loops[l].pc = "update"
       /\ \E table \in CandleTables(strats[loops[l].eng]) : LoopUpdateDone(l, table)
    \/ \E filled \in BOOLEAN : LoopOrderDone(l, filled)
    \/ \E bal \in FetchedBalances : LoopOrderBalanceDone(l, bal)
    \/ \E bal \in FetchedBalances : LoopBalanceDone(l, bal)

\* a stop() that awaits a finished task is resumed
StopStep == \E c \in DOMAIN calls : StopWaitDone(c)

NextStop ==
    \/ \E req \in StopRequests : StartEnter(req)
    \/ StartStep
    \/ StopEnter
    \/ StopStep
    \/ \E l \in DOMAIN loops : LoopStep(l)

SpecStop ==
    /\ Init
    /\ [][NextStop]_vars
    /\ WF_vars(StartStep)
    /\ WF_vars(StopStep)
    /\ \A l \in 1..MaxEngines : WF_vars(l \in DOMAIN loops /\ LoopStep(l))

\* a stop() call is waiting for the task it found
StopWaiting == \E c \in DOMAIN calls : calls[c].pc = "stop_wait"

C39_StopReturns_NoStart == StopWaiting ~> (~StopWaiting \/ is_running)

\* why a stop() that waits while the controller runs again cannot return
\* unless stop() is called once more: a task exits only in a step that finds
\* is_running False, and is_running becomes False only in a step of stop()
C39_TaskExitsOnlyWhenStopped ==
    [][\A l \in DOMAIN loops :
          (loops[l].pc # "done" /\ loops'[l].pc = "done") => ~is_running]_vars
C39_OnlyStopClearsRunning ==
    [][(is_running /\ ~is_running') => (ncalls' = ncalls + 1 /\ last'.op = "stop")]_vars

----------------------------------------------------------------------------
(* One session whose fills the ledger is asked about: the cycles of the    *)
(* loop on a market that rises from 100 to 110, and the ledger calls of    *)
(* get_status                                                              *)

\* a pullback at 100 in an uptrend, and a later row at 110, beyond the
\* take-profit price of a long entered at 100
DailyTables(s) ==
    {NoDf,
     IndicatorTable(s, 20, 100, 99, 20),
     IndicatorTable(s, 20, 110, 99, 50)}

NextDaily ==
    \/ \E l \in DOMAIN loops : LoopIterateWithin(l, SessionCycles)
    \/ \E l \in DOMAIN loops :
          /\ loops[l].pc = "update"
          /\ \E table \in DailyTables(strats[loops[l].eng]) : LoopUpdateDone(l, table)
    \/ \E l \in DOMAIN loops : \E filled \in BOOLEAN : LoopOrderDone(l, filled)
    \/ \E l \in DOMAIN loops : \E bal \in FetchedBalances : LoopOrderBalanceDone(l, bal)
    \/ \E l \in DOMAIN loops : \E bal \in FetchedBalances : LoopBalanceDone(l, bal)
    \/ \E price \in TickerPrices \cup {0} : TickersDone(price)
    \/ \E d \in {Cooldown, Cooldown + 1} : Tick(d)
    \/ LedgerCall

SpecDaily == InitSession /\ [][NextDaily]_vars

\* the trade log is a BUY of a symbol followed, later on the given day, by a
\* SELL of the same symbol at a higher price
BoughtThenSoldHigher(log, today) ==
    /\ Len(log) = 2
    /\ log[2].side = "BUY" /\ log[1].side = "SELL"
    /\ log[2].symbol = log[1].symbol
    /\ log[2].time.t < log[1].time.t
    /\ Day(log[2].time.t) = today /\ Day(log[1].time.t) = today
    /\ log[1].price > log[2].price

\* C40: every record that the controller puts in the trade log carries a
\* time the ledger can parse, and a ledger call on a log that is a filled BUY
\* followed later the same day by a filled SELL of the same symbol at a
\* higher price returns a positive daily realized PnL.
C40_ControllerRecordsReachLedger ==
    [][/\ \A k \in DOMAIN trades' : Parses(trades'[k].time)
       /\ (ledger_ret'.calls > ledger_ret.calls /\ BoughtThenSoldHigher(trades, Day(now)))
            => ledger_ret'.pnl > 0
      ]_vars

\* the first half alone: the time of every record parses
C40_EveryRecordParses ==
    \A k \in DOMAIN trades : Parses(trades[k].time)

\* the second half alone: the profit of the day is reported
C40_ProfitOfTheDayIsReported ==
    [][(ledger_ret'.calls > ledger_ret.calls /\ BoughtThenSoldHigher(trades, Day(now)))
         => ledger_ret'.pnl > 0]_vars

====
